---- MODULE Spec2Model ----
(***************************************************************************)
(* Model of the event reconciliation loop of the MIDI controller / Home    *)
(* Assistant bridge: the feedback monitors of instant_feedback.py and the  *)
(* targets of pymidicontroller/extensions/homeassistant.py.                *)
(*                                                                         *)
(* Time is counted in milliseconds: 0.05 s is 50, 0.1 s is 100 and 3.0 s   *)
(* is 3000.  Python's None, True and False as values are the strings       *)
(* "None", "True" and "False".  Every handler is one atomic action; the    *)
(* I/O calls it makes are recorded, in order, in io, and what it returned  *)
(* (or "raised" when an exception left it) in returned.                    *)
(***************************************************************************)
EXTENDS Integers, Sequences, FiniteSets, TLC

VARIABLES
    now,                \* the wall clock read by time.time()
    last_call,          \* name of the handler that ran last
    returned,           \* what that handler returned, or "raised"
    io,                 \* the I/O calls made by that handler, in order
    \* ---- feedback monitor (InstantFeedbackLight / InstantLightToggle)
    output_device,      \* controller_device.output_device: "open" or "None"
    last_ha_state,      \* metadata['last_ha_state']
    last_check_time,    \* metadata['last_check_time']
    pending_change,     \* metadata['pending_change']
    pending_start_time, \* metadata['pending_start_time']
    current_led_color,  \* metadata['current_led_color']
    \* ---- switch target (Switch, ToggleSwitch and the instant variants)
    sw_class,           \* the class of the switch object
    sw_attributes,      \* its attributes dict
    sw_post_flag,       \* its metadata['post_flag']
    \* ---- light target (Light, CyncLight)
    li_class,           \* the class of the light object
    li_attributes,      \* its attributes dict
    li_post_flag,       \* its metadata['post_flag']
    last_brightness,    \* its metadata['last_brightness']
    last_color,         \* its metadata['last_color']
    \* ---- scheduler (Controller.loop)
    controls,           \* Controller.controls: the mappings, as registered
    feedback_extensions,\* Controller.feedback_extensions, as registered
    objects,            \* the fields of the registered extension objects
    initialized,        \* Controller.initialized
    loop_pc,            \* "setup", "running" or "exited"
    tick_count,         \* iterations of the loop so far
    \* ---- the time check of invoke(), for the monitor and the switch
    last_exec_time,     \* metadata['last_exec_time'] of each of the two
    executions,         \* history: the clock at each entry of execute()
    \* ---- history of the switch inside the loop
    trace,              \* the calls made so far in this iteration, in order
    rising_edges,       \* rising edges the switch has received
    fresh_edges,        \* ... of them since execute() was entered last
    toggle_requests     \* toggle requests the switch has issued

callVars == <<last_call, returned, io>>
monVars == <<output_device, last_ha_state, last_check_time,
             pending_change, pending_start_time, current_led_color>>
swVars == <<sw_class, sw_attributes, sw_post_flag>>
liVars == <<li_class, li_attributes, li_post_flag, last_brightness,
            last_color>>
schedVars == <<controls, feedback_extensions, objects, initialized, loop_pc,
               tick_count>>
gateVars == <<last_exec_time, executions>>
histVars == <<trace, rising_edges, fresh_edges, toggle_requests>>
loopVars == <<schedVars, gateVars, histVars>>
vars == <<now, callVars, monVars, swVars, liVars, loopVars>>

----------------------------------------------------------------------------
(* Bounds of the model *)

StartTime == 1000       \* the clock when the objects are constructed
SmallStep == 40         \* a short advance of the clock
LargeStep == 3000       \* a long advance of the clock
PressWindow == 40       \* presses arrive up to StartTime + PressWindow
Horizon == 3100         \* the clock runs this long after the last press
MidRaw == 64            \* a raw MIDI value between the two ends

PressDeadline == StartTime + PressWindow
MaxTime == PressDeadline + Horizon
Steps == {SmallStep, LargeStep}
RawValues == {0, MidRaw, 127}       \* raw MIDI values 0..127

(* Program constants *)

PendingCheckInterval == 50      \* check_interval while pending_change
MonitorUpdateFrequency == 100   \* metadata['update_frequency'] of a monitor
PendingTimeout == 3000          \* pending_duration > 3.0
ColourDelay == 100              \* time.sleep(0.1) after a colour command
LightUpdateFrequency == 1       \* metadata['update_frequency'] of a Light, in s
SwitchUpdateFrequency == 5      \* metadata['update_frequency'] of a Switch

----------------------------------------------------------------------------
(* Values *)

None == "None"
HaStates == {"on", "off", "unavailable"}
FetchResults == HaStates \cup {None}     \* what Client.get_state returns
PostOutcomes == {"ok", "failed", "raised"}
    \* Client.post_data: status 200, another status, or requests.post raises

PyBool(b) == IF b THEN "True" ELSE "False"

(* ControllerExtension's dicts: a missing key reads as 0 *)
_get_value_from_dict(dict, key) ==
    IF key \in DOMAIN dict THEN dict[key] ELSE 0

_set_value_in_dict(dict, key, value) ==
    [k \in DOMAIN dict \cup {key} |-> IF k = key THEN value ELSE dict[k]]

----------------------------------------------------------------------------
(* Client.get_state: every failure (status other than 200, exception in   *)
(* the request) is turned into None; a 200 yields the 'state' field.       *)

get_state(result) == [op |-> "get_state", result |-> result]

(* Client.post_data: one POST of the JSON payload to /api/services/<domain>/<service>; *)
(* True on status 200, False on another status; an exception of the        *)
(* request is not caught.                                                  *)
post_data(data, domain, service, outcome) ==
    [op |-> "post_data", data |-> data, domain |-> domain,
     service |-> service, outcome |-> outcome]

(* _get_velocity_for_color *)
_get_velocity_for_color(color) ==
    CASE color = "red" -> 15
      [] color = "amber" -> 63
      [] color = "green" -> 60
      [] color = "yellow" -> 62
      [] OTHER -> 0

(* _set_led_color(color, reason): with an output device, one send of a     *)
(* note message; current_led_color is set only after the send returned.    *)
(* sendOk = FALSE is a send that raises: the exception is swallowed.       *)
LedSends(color, reason, sendOk) ==
    IF output_device = "open"
    THEN << [op |-> "send",
             type |-> IF _get_velocity_for_color(color) > 0
                      THEN "note_on" ELSE "note_off",
             velocity |-> _get_velocity_for_color(color),
             color |-> color, reason |-> reason, ok |-> sendOk] >>
    ELSE << >>

\* a slip that does not look at the output device
LedDelivered_AnyDevice(sendOk) == sendOk

\* the send was made and returned
LedDelivered(sendOk) == output_device = "open" /\ sendOk

_set_led_color(color, sendOk) ==
    current_led_color' =
        IF LedDelivered(sendOk) THEN color ELSE current_led_color

\* a slip that swaps the two steady colours
StateColor_Swapped(state) == IF state = "on" THEN "red" ELSE "green"

\* green if the state is 'on', red otherwise
StateColor(state) == IF state = "on" THEN "green" ELSE "red"

----------------------------------------------------------------------------
(* Feedback monitor *)

PressCalls_FetchFirst(sendOk, fetched) ==
    << get_state(fetched) >> \o LedSends("amber", "instant", sendOk)

\* the calls button_pressed() makes, in order: the amber LED first, then
\* the fetch that is used for logging only
PressCalls(sendOk, fetched) ==
    LedSends("amber", "instant", sendOk) \o << get_state(fetched) >>

\* a slip that gives up the press when the LED could not be set
button_pressed_NeedsLed(sendOk) ==
    /\ _set_led_color("amber", sendOk)
    /\ pending_change' = (pending_change \/ LedDelivered(sendOk))
    /\ pending_start_time' =
          IF LedDelivered(sendOk) THEN now ELSE pending_start_time
    /\ UNCHANGED <<output_device, last_ha_state, last_check_time>>

\* a slip that lights the LED and forgets to mark the change as pending
button_pressed_LedOnly(sendOk) ==
    /\ _set_led_color("amber", sendOk)
    /\ pending_start_time' = now
    /\ UNCHANGED <<output_device, last_ha_state, last_check_time,
                   pending_change>>

\* a slip that starts the timeout window at the first press only
button_pressed_KeepsStart(sendOk) ==
    /\ _set_led_color("amber", sendOk)
    /\ pending_change' = TRUE
    /\ pending_start_time' =
          IF pending_change THEN pending_start_time ELSE now
    /\ UNCHANGED <<output_device, last_ha_state, last_check_time>>

\* button_pressed(): what it does to the monitor
button_pressed(sendOk) ==
    /\ _set_led_color("amber", sendOk)
    /\ pending_change' = TRUE
    /\ pending_start_time' = now
    /\ UNCHANGED <<output_device, last_ha_state, last_check_time>>

check_interval == IF pending_change THEN PendingCheckInterval
                  ELSE MonitorUpdateFrequency

ExecuteGated == now - last_check_time < check_interval

\* a slip that sees a change only while nothing is pending
StateChanged_OnlyIdle(fetched) ==
    fetched # last_ha_state /\ fetched # None /\ ~pending_change

\* current_ha_state != last_ha_state and current_ha_state is not None
StateChanged(fetched) == fetched # last_ha_state /\ fetched # None

\* a slip that subtracts the wrong way round
TimedOut_Swapped == pending_start_time - now > PendingTimeout

\* pending_duration > 3.0
TimedOut == now - pending_start_time > PendingTimeout

\* execute(): the body after the check-interval test
ExecuteBody(fetched, sendOk) ==
    /\ last_check_time' = now
    /\ IF StateChanged(fetched)
       THEN \* state change detected
            /\ _set_led_color(StateColor(fetched), sendOk)
            /\ io' = << get_state(fetched) >> \o
                     LedSends(StateColor(fetched),
                              IF pending_change THEN "confirmed" ELSE "external",
                              sendOk)
            /\ pending_change' = FALSE
            /\ last_ha_state' = fetched
       ELSE IF pending_change
       THEN IF TimedOut
            THEN /\ _set_led_color(StateColor(fetched), sendOk)
                 /\ io' = << get_state(fetched) >> \o
                          LedSends(StateColor(fetched), "timeout", sendOk)
                 /\ pending_change' = FALSE
                 /\ UNCHANGED last_ha_state
            ELSE /\ io' = << get_state(fetched) >>
                 /\ UNCHANGED <<pending_change, last_ha_state,
                                current_led_color>>
       ELSE IF last_ha_state = None /\ fetched # None
       THEN \* initial state setup
            /\ _set_led_color(StateColor(fetched), sendOk)
            /\ io' = << get_state(fetched) >> \o
                     LedSends(StateColor(fetched), "initial", sendOk)
            /\ last_ha_state' = fetched
            /\ UNCHANGED pending_change
       ELSE /\ io' = << get_state(fetched) >>
            /\ UNCHANGED <<pending_change, last_ha_state,
                           current_led_color>>

execute(fetched, sendOk) ==
    /\ returned' = "False"
    /\ UNCHANGED <<output_device, pending_start_time>>
    /\ IF ExecuteGated
       THEN /\ io' = << >>
            /\ UNCHANGED <<last_ha_state, last_check_time,
                           pending_change, current_led_color>>
       ELSE ExecuteBody(fetched, sendOk)

----------------------------------------------------------------------------
(* Switch targets *)

SwitchClasses ==
    {"Switch", "ToggleSwitch", "EnhancedSwitch", "LightToggleSwitch"}

\* the attribute that holds the stored level
LevelKey(class) ==
    IF class \in {"Switch", "EnhancedSwitch"}
    THEN "button_state" ELSE "last_note_state"

\* a slip that builds the EnhancedSwitch without its callback
HasCallback_LightOnly(class) == class = "LightToggleSwitch"

\* EnhancedSwitch and LightToggleSwitch are built with the monitor's
\* button_pressed as feedback_callback
HasCallback(class) == class \in {"EnhancedSwitch", "LightToggleSwitch"}

SwitchEntity(class) ==
    IF class = "LightToggleSwitch" THEN "light.lamp" ELSE "switch.lamp"

SwitchDomain(class) ==
    IF class = "LightToggleSwitch" THEN "light" ELSE "switch"

\* a slip that arms on every nonzero value
RisingEdge_AnyPress(last, value) == value > 0

\* the stored level was 0 and the new value is a press
RisingEdge(last, value) == last = 0 /\ value > 0

\* what update() stores as the level: Switch and ToggleSwitch store the
\* binary level, LightToggleSwitch stores the value itself
StoredLevel(class, value) ==
    IF class = "LightToggleSwitch" THEN value
    ELSE IF value > 0 THEN 1 ELSE 0

\* update(attribute, value) of the four switch classes
SwitchUpdate(attribute, value, sendOk, fetched) ==
    /\ IF HasCallback(sw_class) /\ value > 0
       THEN /\ button_pressed(sendOk)
            /\ io' = PressCalls(sendOk, fetched)
       ELSE /\ UNCHANGED monVars
            /\ io' = << >>
    /\ sw_post_flag' =
          IF RisingEdge(_get_value_from_dict(sw_attributes, LevelKey(sw_class)),
                        value)
          THEN TRUE ELSE sw_post_flag
    /\ sw_attributes' =
          _set_value_in_dict(
              _set_value_in_dict(sw_attributes, LevelKey(sw_class),
                                 StoredLevel(sw_class, value)),
              attribute, value)
    /\ returned' = IF sw_class = "LightToggleSwitch" THEN "True" ELSE None
    /\ UNCHANGED sw_class

\* execute() of the four switch classes
SwitchExecute(outcome) ==
    /\ UNCHANGED <<sw_class, sw_attributes>>
    /\ IF sw_post_flag
       THEN /\ io' = << post_data([entity_id |-> SwitchEntity(sw_class)],
                                  SwitchDomain(sw_class), "toggle", outcome) >>
            /\ IF outcome = "raised"
               THEN /\ returned' = "raised"
                    /\ UNCHANGED sw_post_flag
               ELSE /\ sw_post_flag' = FALSE
                    /\ returned' = PyBool(outcome # "ok")
       ELSE /\ io' = << >>
            /\ returned' = "False"
            /\ UNCHANGED sw_post_flag

----------------------------------------------------------------------------
(* Light targets *)

LightEntity == "light.cync"

\* a slip that divides by the number of raw values instead of their span
RoundTranslate_PerValue(value, leftMin, leftMax, rightMin, rightMax) ==
    rightMin + (2 * (value - leftMin) * (rightMax - rightMin)
                   + (leftMax - leftMin + 1)) \div (2 * (leftMax - leftMin + 1))

\* round(translate(value, leftMin, leftMax, rightMin, rightMax)): the
\* linear rescale, rounded to the nearest integer
RoundTranslate(value, leftMin, leftMax, rightMin, rightMax) ==
    rightMin + (2 * (value - leftMin) * (rightMax - rightMin)
                   + (leftMax - leftMin)) \div (2 * (leftMax - leftMin))

LightChannel(key) ==
    RoundTranslate(_get_value_from_dict(li_attributes, key), 0, 127, 0, 255)

current_brightness == LightChannel("brightness_channel")
current_color == << LightChannel("red_channel"), LightChannel("green_channel"),
                    LightChannel("blue_channel") >>

\* Light.update(attribute, value)
LightUpdate(attribute, value) ==
    /\ li_post_flag' = TRUE
    /\ li_attributes' = _set_value_in_dict(li_attributes, attribute, value)
    /\ io' = << >>
    /\ returned' = None
    /\ UNCHANGED <<li_class, last_brightness, last_color>>

\* a slip that gives the hue the range of the saturation and back
current_hs_Swapped ==
    << RoundTranslate(_get_value_from_dict(li_attributes, "hue_channel"),
                      0, 127, 0, 100),
       RoundTranslate(_get_value_from_dict(li_attributes,
                                           "saturation_channel"),
                      0, 127, 0, 360) >>

\* [round(hue), round(saturation)]
current_hs ==
    << RoundTranslate(_get_value_from_dict(li_attributes, "hue_channel"),
                      0, 127, 0, 360),
       RoundTranslate(_get_value_from_dict(li_attributes,
                                           "saturation_channel"),
                      0, 127, 0, 100) >>

\* a slip that sends the colour in both forms
LightData_BothColours ==
    [brightness |-> current_brightness,
     transition |-> LightUpdateFrequency,
     entity_id |-> LightEntity,
     rgb_color |-> current_color,
     hs_color |-> current_hs]

\* the payload of Light.execute(): brightness, transition and entity id,
\* and hs_color or rgb_color after the colour mode
LightData ==
    LET colour_mode == _get_value_from_dict(li_attributes, "colour_mode")
        base == [brightness |-> current_brightness,
                 transition |-> LightUpdateFrequency,
                 entity_id |-> LightEntity]
    IN  IF colour_mode = "rgb"
        THEN [k \in DOMAIN base \cup {"rgb_color"} |->
                 IF k = "rgb_color" THEN current_color ELSE base[k]]
        ELSE IF colour_mode = "hs"
        THEN [k \in DOMAIN base \cup {"hs_color"} |->
                 IF k = "hs_color" THEN current_hs ELSE base[k]]
        ELSE base

\* a slip that clears the flag whatever the request did
LightFlagAfter_Cleared(outcome) == FALSE

\* a slip that never clears the flag
LightFlagAfter_Kept(outcome) == TRUE

\* post_flag after the request: not post_data
LightFlagAfter(outcome) == outcome # "ok"

\* Light.execute(): one request with the values buffered now
LightExecute(outcome) ==
    /\ UNCHANGED <<li_class, li_attributes, last_brightness, last_color>>
    /\ IF li_post_flag
       THEN /\ io' = << post_data(LightData, "light", "turn_on", outcome) >>
            /\ IF outcome = "raised"
               THEN /\ returned' = "raised"
                    /\ UNCHANGED li_post_flag
               ELSE /\ li_post_flag' = LightFlagAfter(outcome)
                    /\ returned' = PyBool(LightFlagAfter(outcome))
       ELSE /\ io' = << >>
            /\ returned' = "False"
            /\ UNCHANGED li_post_flag

\* a slip that sends the brightness along with the colour
color_data_WithBrightness(color) ==
    [entity_id |-> LightEntity, rgb_color |-> color,
     brightness |-> current_brightness]

color_data(color) == [entity_id |-> LightEntity, rgb_color |-> color]

\* a slip that sends the colour along, as Light.execute does
brightness_data_WithColour(brightness) ==
    [entity_id |-> LightEntity, brightness |-> brightness,
     rgb_color |-> current_color]

brightness_data(brightness) ==
    [entity_id |-> LightEntity, brightness |-> brightness]

\* a slip that sends colour and brightness in one payload, as Light does
ColourCalls_Combined(outcome) ==
    << post_data([entity_id |-> LightEntity, rgb_color |-> current_color,
                  brightness |-> current_brightness],
                 "light", "turn_on", outcome) >>

\* the time the sleeps among the calls take
RECURSIVE SleptIn(_)
SleptIn(calls) ==
    IF calls = << >> THEN 0
    ELSE (IF calls[1].op = "sleep" THEN calls[1].ms ELSE 0)
         + SleptIn(Tail(calls))

ColourCalls(outcome) ==
    << post_data(color_data(current_color), "light", "turn_on", outcome) >>
    \o (IF outcome = "ok" THEN << [op |-> "sleep", ms |-> ColourDelay] >>
        ELSE << >>)

BrightnessCalls(outcome) ==
    << post_data(brightness_data(current_brightness), "light", "turn_on",
                 outcome) >>

\* a slip that sends the brightness even though the colour send failed
SendBrightness_Always(colourOk) == current_brightness # last_brightness

\* current_brightness != last_brightness and success
SendBrightness(colourOk) ==
    current_brightness # last_brightness /\ colourOk

\* a slip that reports success as soon as the colour went through
CyncSuccess_ColourOnly(colourOk, sendBrightness, brightnessOutcome) ==
    colourOk

\* a slip that starts from success = False, so that an execute() without
\* a request counts as failed
CyncSuccess_StartsFalse(colourOk, sendBrightness, brightnessOutcome) ==
    sendBrightness /\ brightnessOutcome = "ok"

\* the value of success at the end of execute()
CyncSuccess(colourOk, sendBrightness, brightnessOutcome) ==
    colourOk /\ (sendBrightness => brightnessOutcome = "ok")

\* the requests of one execute(), in the order of the code
CyncCalls(colourCalls, brightnessCalls) == colourCalls \o brightnessCalls

\* CyncLight.execute(): colour first, without brightness; then brightness,
\* without colour, if the colour send did not fail
CyncLightExecute(colourOutcome, brightnessOutcome) ==
    /\ UNCHANGED <<li_class, li_attributes>>
    /\ IF ~li_post_flag
       THEN /\ io' = << >>
            /\ returned' = "False"
            /\ UNCHANGED <<li_post_flag, last_brightness, last_color>>
       ELSE LET sendColour == current_color # last_color
                colourOk == ~sendColour \/ colourOutcome = "ok"
                colourRaised == sendColour /\ colourOutcome = "raised"
                sendBrightness == SendBrightness(colourOk)
                brightnessRaised == sendBrightness
                                      /\ brightnessOutcome = "raised"
                success == CyncSuccess(colourOk, sendBrightness,
                                       brightnessOutcome)
            IN  /\ io' = CyncCalls(
                            IF sendColour THEN ColourCalls(colourOutcome)
                            ELSE << >>,
                            IF sendBrightness
                            THEN BrightnessCalls(brightnessOutcome)
                            ELSE << >>)
                /\ last_color' = IF sendColour /\ colourOutcome = "ok"
                                 THEN current_color ELSE last_color
                /\ last_brightness' =
                      IF sendBrightness /\ brightnessOutcome = "ok"
                      THEN current_brightness ELSE last_brightness
                /\ IF colourRaised \/ brightnessRaised
                   THEN /\ returned' = "raised"
                        /\ UNCHANGED li_post_flag
                   ELSE /\ li_post_flag' = ~success
                        /\ returned' = PyBool(~success)

----------------------------------------------------------------------------
(* ControllerExtension.invoke(), for the monitor and for the switch *)

Components == {"monitor", "switch"}

ToggleUpdateFrequency == 100    \* update_frequency of a ToggleSwitch
InstantUpdateFrequency == 1     \* ... of the two instant switches

\* metadata['update_frequency'], as set at construction
update_frequency(c) ==
    IF c = "monitor" THEN MonitorUpdateFrequency
    ELSE CASE sw_class = "Switch" -> SwitchUpdateFrequency
           [] sw_class = "ToggleSwitch" -> ToggleUpdateFrequency
           [] OTHER -> InstantUpdateFrequency

\* time_check: current_time - last_post_time <= update_frequency
time_check(c) == now - last_exec_time[c] <= update_frequency(c)

\* invoke() of component c, whose execute() is the action Execute: behind
\* the time check execute() is called, and when it has returned
\* last_exec_time is set to the clock read at the start of invoke()
invoke(c, Execute) ==
    IF time_check(c)
    THEN /\ io' = << >>
         /\ returned' = "False"
         /\ UNCHANGED <<monVars, swVars, gateVars>>
    ELSE /\ Execute
         /\ executions' = [executions EXCEPT ![c] = Append(@, now)]
         /\ last_exec_time' =
               IF returned' = "raised" THEN last_exec_time
               ELSE [last_exec_time EXCEPT ![c] = now]

colour_modes == << "hs", "rgb" >>

\* a slip that forgets to wrap around at the end of the list
NextColourMode_NoWrap(mode) ==
    LET index == CHOOSE i \in 1..Len(colour_modes) : colour_modes[i] = mode
    IN  colour_modes[IF index < Len(colour_modes) THEN index + 1 ELSE index]

\* colour_modes[(index + 1) % len(colour_modes)]
NextColourMode(mode) ==
    LET index == CHOOSE i \in 1..Len(colour_modes) : colour_modes[i] = mode
    IN  colour_modes[(index % Len(colour_modes)) + 1]

\* Light.change_colour_mode(): the next of ['hs', 'rgb'], cyclically
change_colour_mode ==
    /\ li_attributes' =
          _set_value_in_dict(li_attributes, "colour_mode",
              NextColourMode(_get_value_from_dict(li_attributes,
                                                  "colour_mode")))
    /\ io' = << >>
    /\ returned' = None
    /\ UNCHANGED <<li_class, li_post_flag, last_brightness, last_color>>

----------------------------------------------------------------------------
(* The objects after construction *)

\* ControllerExtension: 'last_exec_time': 0; execute() not entered yet
InitGateVars ==
    /\ last_exec_time = [c \in Components |-> 0]
    /\ executions = [c \in Components |-> << >>]

\* nothing has happened yet
InitHistVars ==
    /\ trace = << >>
    /\ rising_edges = 0
    /\ fresh_edges = 0
    /\ toggle_requests = 0

\* Controller: no mapping, no feedback extension, loop() not called
InitLoopVars ==
    /\ controls = << >>
    /\ feedback_extensions = << >>
    /\ objects = << >>
    /\ initialized = FALSE
    /\ loop_pc = "setup"
    /\ tick_count = 0
    /\ InitGateVars
    /\ InitHistVars

InitCalls ==
    /\ now = StartTime
    /\ last_call = "init"
    /\ returned = None
    /\ io = << >>

\* InstantFeedbackLight.__post_init__
InitMonitorVars(devices) ==
    /\ output_device \in devices
    /\ last_ha_state = None
    /\ last_check_time = 0
    /\ pending_change = FALSE
    /\ pending_start_time = 0
    /\ current_led_color = "unknown"

\* Switch.__post_init__, ToggleSwitch.__post_init__, LightToggleSwitch.__init__
InitSwitchVars(classes) ==
    /\ sw_class \in classes
    /\ sw_attributes = [k \in {LevelKey(sw_class)} |-> 0]
    /\ sw_post_flag = FALSE

\* CyncLight.__post_init__
InitLightVars ==
    /\ li_class = "CyncLight"
    /\ li_attributes = [k \in {"colour_mode"} |-> "rgb"]
    /\ li_post_flag = FALSE
    /\ last_brightness = 255
    /\ last_color = <<255, 255, 255>>

\* Light.__post_init__: no last_brightness or last_color in the metadata,
\* which get_metadata reads as 0
InitPlainLightVars ==
    /\ li_class = "Light"
    /\ li_attributes = [k \in {"colour_mode"} |-> "hs"]
    /\ li_post_flag = FALSE
    /\ last_brightness = 0
    /\ last_color = 0

\* no light object / no switch object has been constructed
InitNoLight ==
    /\ li_class = None
    /\ li_attributes = << >>
    /\ li_post_flag = FALSE
    /\ last_brightness = 0
    /\ last_color = 0

InitNoSwitch ==
    /\ sw_class = None
    /\ sw_attributes = << >>
    /\ sw_post_flag = FALSE

----------------------------------------------------------------------------
(* The monitor driven by presses, polls and the clock *)

InitMonitor ==
    InitCalls /\ InitMonitorVars({"open", None}) /\ InitSwitchVars({"Switch"})
        /\ InitLightVars /\ InitLoopVars

Tick ==
    /\ \E d \in Steps : now + d <= MaxTime /\ now' = now + d
    /\ last_call' = "tick"
    /\ returned' = None
    /\ io' = << >>
    /\ UNCHANGED <<monVars, swVars, liVars, loopVars>>

Press ==
    /\ now <= PressDeadline
    /\ \E sendOk \in BOOLEAN, fetched \in FetchResults :
          /\ button_pressed(sendOk)
          /\ io' = PressCalls(sendOk, fetched)
    /\ last_call' = "button_pressed"
    /\ returned' = None
    /\ UNCHANGED <<now, swVars, liVars, loopVars>>

Poll ==
    /\ \E fetched \in FetchResults, sendOk \in BOOLEAN :
          execute(fetched, sendOk)
    /\ last_call' = "execute"
    /\ UNCHANGED <<now, swVars, liVars, loopVars>>

NextMonitor == Tick \/ Press \/ Poll

SpecMonitor == InitMonitor /\ [][NextMonitor]_vars

----------------------------------------------------------------------------
(* The monitor with an output port whose send() always returns *)

InitSink ==
    InitCalls /\ InitMonitorVars({"open"}) /\ InitSwitchVars({"Switch"})
        /\ InitLightVars /\ InitLoopVars

SinkPress ==
    /\ now <= PressDeadline
    /\ \E fetched \in FetchResults :
          /\ button_pressed(TRUE)
          /\ io' = PressCalls(TRUE, fetched)
    /\ last_call' = "button_pressed"
    /\ returned' = None
    /\ UNCHANGED <<now, swVars, liVars, loopVars>>

SinkPoll ==
    /\ \E fetched \in FetchResults : execute(fetched, TRUE)
    /\ last_call' = "execute"
    /\ UNCHANGED <<now, swVars, liVars, loopVars>>

NextSink == Tick \/ SinkPress \/ SinkPoll

SpecSink == InitSink /\ [][NextSink]_vars

----------------------------------------------------------------------------
(* A switch driven by note values and by its execute() *)

InitSwitch ==
    InitCalls /\ InitMonitorVars({"open", None})
        /\ InitSwitchVars(SwitchClasses) /\ InitLightVars /\ InitLoopVars

SwUpdate ==
    /\ \E value \in RawValues, sendOk \in BOOLEAN, fetched \in FetchResults :
          SwitchUpdate("value", value, sendOk, fetched)
    /\ last_call' = "switch.update"
    /\ UNCHANGED <<now, liVars, loopVars>>

SwExecute ==
    /\ \E outcome \in PostOutcomes : SwitchExecute(outcome)
    /\ last_call' = "switch.execute"
    /\ UNCHANGED <<now, monVars, liVars, loopVars>>

NextSwitch == SwUpdate \/ SwExecute

SpecSwitch == InitSwitch /\ [][NextSwitch]_vars

----------------------------------------------------------------------------
(* A CyncLight driven by control values and by its execute() *)

LightHorizon == 200     \* no execute() of a light is entered from here on

\* execute() of a light returns when its sleeps have passed
LightClock == now' = now + SleptIn(io')

CyncChannels ==
    {"brightness_channel", "red_channel", "green_channel", "blue_channel"}

InitCync ==
    InitCalls /\ InitMonitorVars({None}) /\ InitSwitchVars({"Switch"})
        /\ InitLightVars /\ InitLoopVars

LiUpdate ==
    /\ \E attribute \in CyncChannels, value \in RawValues :
          LightUpdate(attribute, value)
    /\ last_call' = "light.update"
    /\ UNCHANGED <<now, monVars, swVars, loopVars>>

LiExecute ==
    /\ now < StartTime + LightHorizon
    /\ \E colourOutcome \in PostOutcomes, brightnessOutcome \in PostOutcomes :
          CyncLightExecute(colourOutcome, brightnessOutcome)
    /\ LightClock
    /\ last_call' = "light.execute"
    /\ UNCHANGED <<monVars, swVars, loopVars>>

LiToggleMode ==
    /\ change_colour_mode
    /\ last_call' = "light.change_colour_mode"
    /\ UNCHANGED <<now, monVars, swVars, loopVars>>

NextCync == LiUpdate \/ LiExecute \/ LiToggleMode

SpecCync == InitCync /\ [][NextCync]_vars

----------------------------------------------------------------------------
(* One target of any class, driven by update(), execute() and, for the     *)
(* lights, change_colour_mode()                                            *)

LightClasses == {"Light", "CyncLight"}
TargetChannels == {"brightness_channel", "hue_channel", "red_channel"}

InitTargets ==
    /\ InitCalls /\ InitMonitorVars({None}) /\ InitLoopVars
    /\ \/ InitNoLight /\ InitSwitchVars(SwitchClasses)
       \/ InitNoSwitch /\ (InitLightVars \/ InitPlainLightVars)

TgSwUpdate == sw_class # None /\ SwUpdate

TgSwExecute == sw_class # None /\ SwExecute

TgLiUpdate ==
    /\ li_class # None
    /\ \E attribute \in TargetChannels, value \in RawValues :
          LightUpdate(attribute, value)
    /\ last_call' = "light.update"
    /\ UNCHANGED <<now, monVars, swVars, loopVars>>

TgLiExecute ==
    /\ li_class # None
    /\ now < StartTime + LightHorizon
    /\ IF li_class = "CyncLight"
       THEN \E colourOutcome \in PostOutcomes,
               brightnessOutcome \in PostOutcomes :
                CyncLightExecute(colourOutcome, brightnessOutcome)
       ELSE \E outcome \in PostOutcomes : LightExecute(outcome)
    /\ LightClock
    /\ last_call' = "light.execute"
    /\ UNCHANGED <<monVars, swVars, loopVars>>

TgLiToggleMode == li_class # None /\ LiToggleMode

NextTargets ==
    TgSwUpdate \/ TgSwExecute \/ TgLiUpdate \/ TgLiExecute \/ TgLiToggleMode

SpecTargets == InitTargets /\ [][NextTargets]_vars

----------------------------------------------------------------------------
(* A light whose one channel is driven through the raw MIDI values: all of *)
(* them for a Light; the two ends and a value between for a CyncLight,     *)
(* which keeps the values it sent last and scales with the same            *)
(* expressions.                                                            *)

RawMax == 127           \* the upper end of the raw range given to translate
AllChannels == CyncChannels \cup {"hue_channel", "saturation_channel"}

\* the channels that have been given a value
Touched == DOMAIN li_attributes \ {"colour_mode"}

ScaleValues == IF li_class = "Light" THEN 0..RawMax ELSE RawValues

InitScale ==
    /\ InitCalls /\ InitMonitorVars({None}) /\ InitLoopVars
    /\ InitNoSwitch /\ (InitLightVars \/ InitPlainLightVars)

ScUpdate ==
    /\ \E attribute \in AllChannels, value \in ScaleValues :
          /\ Touched = {} \/ attribute \in Touched
          /\ LightUpdate(attribute, value)
    /\ last_call' = "light.update"
    /\ UNCHANGED <<now, monVars, swVars, loopVars>>

NextScale == ScUpdate \/ TgLiExecute \/ TgLiToggleMode

SpecScale == InitScale /\ [][NextScale]_vars

----------------------------------------------------------------------------
(* Controller: registration and the scheduler loop.  The targets are       *)
(* Switch objects; the feedback extensions are extensions of any class,    *)
(* whose execute() may raise.                                              *)

MaxMappings == 2        \* mappings registered at most
MaxFeedback == 2        \* feedback registrations at most
MaxTicks == 2           \* iterations of the loop at most
MaxInitFailures == 1    \* failed init() attempts in one reconnect at most
NoteNumber == 36        \* the note the mappings are registered for

LoopSleep == 5                  \* update_rate: sleep(0.005) per iteration
ErrorSleep == 1000              \* sleep(1) after an error in the loop
RetrySleep == 2000              \* sleep(2) after a failed init()

Targets == {"t1", "t2", "t3"}
Monitors == {"m1", "m2"}

\* t1 and t2 are two Switch objects constructed with the same arguments
EntityOf(id) ==
    IF id \in {"t1", "t2", "m1"} THEN "switch.a" ELSE "switch.b"

\* the dataclass fields of a Switch after __post_init__
NewTarget(id) ==
    [entity_id |-> EntityOf(id),
     attributes |-> [k \in {"button_state"} |-> 0],
     metadata |-> [k \in {"update_frequency", "last_exec_time"} |->
                      IF k = "update_frequency" THEN SwitchUpdateFrequency
                      ELSE 0]]

\* the dataclass fields of a feedback extension after __post_init__
NewMonitor(id) ==
    [entity_id |-> EntityOf(id),
     attributes |-> << >>,
     metadata |-> [k \in {"update_frequency", "last_exec_time"} |->
                      IF k = "update_frequency" THEN MonitorUpdateFrequency
                      ELSE 0]]

WithObject(objs, id, fields) ==
    IF id \in DOMAIN objs THEN objs
    ELSE [k \in DOMAIN objs \cup {id} |-> IF k = id THEN fields ELSE objs[k]]

\* ControlClass(channel, control / note, target, data, message_type)
ControlClass(channel, control_or_note, target, data, message_type) ==
    [channel |-> channel,
     control |-> IF message_type = "note" THEN None ELSE control_or_note,
     note |-> IF message_type = "note" THEN control_or_note ELSE None,
     target |-> target, data |-> data, message_type |-> message_type]

\* Controller.register_mapping: a note mapping for message_type 'note', a
\* cc mapping for any other message_type
register_mapping(channel, control_or_note, target, data, message_type) ==
    /\ controls' = Append(controls,
                          ControlClass(channel, control_or_note, target, data,
                                       IF message_type = "note" THEN "note"
                                       ELSE "cc"))
    /\ objects' = WithObject(objects, target, NewTarget(target))
    /\ UNCHANGED feedback_extensions

\* Controller.register_feedback
register_feedback(feedback_extension) ==
    /\ feedback_extensions' = Append(feedback_extensions, feedback_extension)
    /\ objects' = WithObject(objects, feedback_extension,
                             NewMonitor(feedback_extension))
    /\ UNCHANGED controls

\* a flag of a metadata dict, read by `if`
Truthy(dict, key) == key \in DOMAIN dict /\ dict[key] = TRUE

\* Switch.update(attribute, value) on the fields of one Switch
SwitchFieldsUpdate(o, attribute, value) ==
    [o EXCEPT
       !.metadata =
          IF RisingEdge(_get_value_from_dict(o.attributes, "button_state"),
                        value)
          THEN _set_value_in_dict(@, "post_flag", TRUE) ELSE @,
       !.attributes =
          _set_value_in_dict(
             _set_value_in_dict(@, "button_state", StoredLevel("Switch", value)),
             attribute, value)]

\* a slip that forgets the note of the mapping
NoteMatches_AnyNote(cc, channel, note) ==
    cc.message_type = "note" /\ cc.channel = channel

\* cc.message_type == 'note' and cc.channel == channel and cc.note == note
NoteMatches(cc, channel, note) ==
    cc.message_type = "note" /\ cc.channel = channel /\ cc.note = note

\* the one element of a singleton (used to evaluate a step once)
Only(S) == CHOOSE x \in S : TRUE

\* the body of update_note's for loop for mapping i
UpdateNoteStep(i, st, channel, note, velocity) ==
    LET cc == st.controls[i]
        data == IF cc.data = None THEN "value" ELSE cc.data
    IN  IF NoteMatches(cc, channel + 1, note)
        THEN [controls |-> [st.controls EXCEPT ![i].data = data],
              objs |-> [st.objs EXCEPT ![cc.target] =
                           SwitchFieldsUpdate(@, data, velocity)],
              calls |-> Append(st.calls,
                               [op |-> "update", obj |-> cc.target,
                                attribute |-> data, value |-> velocity])]
        ELSE st

\* Controller.update_note(channel, note, velocity): every matching mapping,
\* in registration order, gets its data defaulted to 'value' and its target
\* updated
RECURSIVE update_note(_, _, _, _, _)
update_note(i, st, channel, note, velocity) ==
    IF i > Len(st.controls) THEN st
    ELSE Only({ update_note(i + 1, next, channel, note, velocity) :
                   next \in {UpdateNoteStep(i, st, channel, note, velocity)} })

\* a slip that forgets the channel of the mapping
ControlMatches_AnyChannel(cc, channel, control) ==
    cc.message_type = "cc" /\ cc.control = control

\* cc.message_type == 'cc' and cc.channel == channel and cc.control == control
ControlMatches(cc, channel, control) ==
    cc.message_type = "cc" /\ cc.channel = channel /\ cc.control = control

\* the body of update_control's for loop for mapping i
UpdateControlStep(i, st, channel, control, value) ==
    LET cc == st.controls[i]
        data == IF cc.data = None THEN "value" ELSE cc.data
    IN  IF ControlMatches(cc, channel + 1, control)
        THEN [controls |-> [st.controls EXCEPT ![i].data = data],
              objs |-> [st.objs EXCEPT ![cc.target] =
                           SwitchFieldsUpdate(@, data, value)],
              calls |-> Append(st.calls,
                               [op |-> "update", obj |-> cc.target,
                                attribute |-> data, value |-> value])]
        ELSE st

\* Controller.update_control(channel, control, value)
RECURSIVE update_control(_, _, _, _, _)
update_control(i, st, channel, control, value) ==
    IF i > Len(st.controls) THEN st
    ELSE Only({ update_control(i + 1, next, channel, control, value) :
                   next \in {UpdateControlStep(i, st, channel, control,
                                               value)} })

\* a message as iter_pending() yields it: vars(message)
Message(type, channel, number, value) ==
    [type |-> type, channel |-> channel, number |-> number, value |-> value]

\* the body of `for message in midi_device.iter_pending()`: a control
\* change goes to update_control, a note to update_note (a note_off with
\* velocity 0), any other message is dropped
HandleMessage(st, message) ==
    IF message.type = "control_change"
    THEN update_control(1, st, message.channel, message.number,
                        message.value)
    ELSE IF message.type \in {"note_on", "note_off"}
    THEN update_note(1, st, message.channel, message.number,
                     IF message.type = "note_off" THEN 0 ELSE message.value)
    ELSE st

RECURSIVE HandleMessages(_, _, _)
HandleMessages(i, st, messages) ==
    IF i > Len(messages) THEN st
    ELSE Only({ HandleMessages(i + 1, next, messages) :
                   next \in {HandleMessage(st, messages[i])} })

\* target not in ignore_list: list membership by identity or by equality
\* of the dataclass fields
InList(objs, list, id) ==
    \E k \in 1..Len(list) : list[k] = id \/ objs[list[k]] = objs[id]

\* current_time - last_exec_time <= update_frequency
InvokeGated(o, clock) ==
    clock - o.metadata["last_exec_time"] <= o.metadata["update_frequency"]

InvokeCall(id, kind, raised) ==
    [op |-> "invoke", obj |-> id, kind |-> kind, raised |-> raised]

\* invoke() of a Switch: execute() behind the time check; last_exec_time is
\* set when execute() has returned
TargetInvoke(o, id, clock, outcome) ==
    LET post == post_data([entity_id |-> o.entity_id], "switch", "toggle",
                          outcome)
    IN  IF InvokeGated(o, clock)
        THEN [obj |-> o, calls |-> << InvokeCall(id, "target", FALSE) >>,
              raised |-> FALSE]
        ELSE IF ~Truthy(o.metadata, "post_flag")
        THEN [obj |-> [o EXCEPT !.metadata =
                          _set_value_in_dict(@, "last_exec_time", clock)],
              calls |-> << InvokeCall(id, "target", FALSE) >>,
              raised |-> FALSE]
        ELSE IF outcome = "raised"
        THEN [obj |-> o,
              calls |-> << InvokeCall(id, "target", TRUE), post >>,
              raised |-> TRUE]
        ELSE [obj |-> [o EXCEPT !.metadata =
                          _set_value_in_dict(
                             _set_value_in_dict(@, "post_flag", FALSE),
                             "last_exec_time", clock)],
              calls |-> << InvokeCall(id, "target", FALSE), post >>,
              raised |-> FALSE]

\* invoke() of a feedback extension whose execute() raises or returns
MonitorInvoke(o, id, clock, raises) ==
    IF InvokeGated(o, clock)
    THEN [obj |-> o, calls |-> << InvokeCall(id, "monitor", FALSE) >>,
          raised |-> FALSE]
    ELSE IF raises
    THEN [obj |-> o, calls |-> << InvokeCall(id, "monitor", TRUE) >>,
          raised |-> TRUE]
    ELSE [obj |-> [o EXCEPT !.metadata =
                      _set_value_in_dict(@, "last_exec_time", clock)],
          calls |-> << InvokeCall(id, "monitor", FALSE) >>,
          raised |-> FALSE]

\* the body of the for loop over the mappings, for mapping i
TargetStep(i, st, outcomes) ==
    LET target == st.controls[i].target
        r == TargetInvoke(st.objs[target], target, st.clock, outcomes[target])
    IN  IF InList(st.objs, st.ignore_list, target) THEN st
        ELSE [st EXCEPT !.objs[target] = r.obj,
                        !.calls = @ \o r.calls,
                        !.raised = r.raised,
                        !.ignore_list = IF r.raised THEN @
                                        ELSE Append(@, target)]

\* "Execute control extensions": an exception of invoke() leaves the for
\* loop and reaches the handler of the while loop
RECURSIVE InvokeTargets(_, _, _)
InvokeTargets(i, st, outcomes) ==
    IF i > Len(st.controls) \/ st.raised THEN st
    ELSE Only({ InvokeTargets(i + 1, next, outcomes) :
                   next \in {TargetStep(i, st, outcomes)} })

\* the body of the for loop over the feedback extensions, for entry i
MonitorStep(i, st, raisers) ==
    LET feedback_ext == feedback_extensions[i]
        r == MonitorInvoke(st.objs[feedback_ext], feedback_ext, st.clock,
                           feedback_ext \in raisers)
    IN  IF InList(st.objs, st.ignore_list, feedback_ext) THEN st
        ELSE [st EXCEPT !.objs[feedback_ext] = r.obj,
                        !.calls = @ \o r.calls,
                        !.ignore_list = IF r.raised THEN @
                                        ELSE Append(@, feedback_ext)]

\* "Execute feedback extensions": each invoke() in its own try; after an
\* exception the extension is not appended to feedback_ignore_list
RECURSIVE InvokeMonitors(_, _, _)
InvokeMonitors(i, st, raisers) ==
    IF i > Len(feedback_extensions) THEN st
    ELSE Only({ InvokeMonitors(i + 1, next, raisers) :
                   next \in {MonitorStep(i, st, raisers)} })

Messages == {"none", "note_on", "note_off", "raised"}
Velocity(message) == IF message = "note_on" THEN 127 ELSE 0

\* a slip that lets any exception end the loop
LoopAfter_AnyExits(exception) == "exited"

\* where the handlers of the while loop leave the loop: KeyboardInterrupt
\* exits, any other Exception sleeps and goes round again
LoopAfter(exception) ==
    IF exception = "KeyboardInterrupt" THEN "exited" ELSE "running"

Sleep(ms) == [op |-> "sleep", ms |-> ms]

\* check_connection() and the reconnect loop: the init() calls made
Reconnect(connected, initFailures) ==
    IF connected THEN << >>
    ELSE [k \in 1..initFailures + 1 |->
             IF k <= initFailures THEN [op |-> "init", ok |-> FALSE]
             ELSE [op |-> "init", ok |-> TRUE]]

RECURSIVE WithRetrySleeps(_)
WithRetrySleeps(inits) ==
    IF inits = << >> THEN << >>
    ELSE (IF inits[1].ok THEN << inits[1] >>
          ELSE << inits[1], Sleep(RetrySleep) >>)
         \o WithRetrySleeps(Tail(inits))

\* one iteration of `while True` in Controller.loop, in which
\* iter_pending() yields the messages or raises
LoopIterationOn(ports, failures, device, messages, raised, outcomes, raisers) ==
    LET connected == initialized /\ ports = "valid"
        connects == WithRetrySleeps(Reconnect(connected, failures))
        start == [controls |-> controls, objs |-> objects,
                  calls |-> Append(connects,
                                   [op |-> "iter_pending",
                                    raised |-> raised,
                                    messages |-> messages])]
    IN  \E drained \in
              {IF raised THEN start ELSE HandleMessages(1, start, messages)} :
        \E atTargets \in
              {[controls |-> drained.controls, objs |-> drained.objs,
                calls |-> drained.calls, ignore_list |-> << >>,
                clock |-> now + SleptIn(connects), raised |-> FALSE]} :
        \E afterTargets \in
              {IF raised THEN atTargets
               ELSE InvokeTargets(1, atTargets, outcomes)} :
        \E done \in
              {IF raised \/ afterTargets.raised THEN afterTargets
               ELSE InvokeMonitors(1, [afterTargets EXCEPT
                                          !.ignore_list = << >>], raisers)} :
          LET failed == raised \/ afterTargets.raised
              nap == IF failed THEN ErrorSleep ELSE LoopSleep
          IN  /\ initialized' = TRUE
              /\ output_device' = IF connected THEN output_device ELSE device
              /\ controls' = done.controls
              /\ objects' = done.objs
              /\ io' = Append(done.calls, Sleep(nap))
              /\ now' = done.clock + nap
              /\ returned' = IF failed THEN "Exception" ELSE None
              /\ loop_pc' = IF failed THEN LoopAfter("Exception")
                            ELSE "running"
              /\ UNCHANGED feedback_extensions

\* what is pending in an iteration with at most one note message
PendingNote(message) ==
    IF message \in {"note_on", "note_off"}
    THEN << Message(message, 0, NoteNumber, Velocity(message)) >>
    ELSE << >>

\* one iteration of `while True` in which at most one note is pending
LoopIteration(ports, initFailures, device, message, outcomes, raisers) ==
    LoopIterationOn(ports, initFailures, device, PendingNote(message),
                    message = "raised", outcomes, raisers)

\* Controller.cleanup(): the output port, if any, is closed
cleanup(device) == IF device = "open" THEN << [op |-> "close"] >> ELSE << >>

\* a for loop over get_controls() that is left after its first rounds
LeftAfter(st, rounds) == [st EXCEPT !.controls = SubSeq(@, 1, rounds)]

\* ... and the mappings it did not get to, which stay as they were
Rejoined(part, st) ==
    [part EXCEPT !.controls =
        @ \o SubSeq(st.controls, Len(@) + 1, Len(st.controls))]

\* the statements of the try up to iter_pending(), left after `made` of the
\* calls of the reconnect loop; `checked`: check_connection() has stored
\* its result; `opening`: the interrupt arrives inside the init() that
\* succeeds, after open_output() has been assigned (line 115) and before
\* initialized is set (line 121)
ConnectCut(connected, connects, device, made, checked, opening) ==
    LET done == SubSeq(connects, 1, made)
        opened == made > 0 /\ done[made].op = "init" /\ done[made].ok
    IN  [initialized |-> IF checked THEN connected \/ opened
                         ELSE initialized,
         output_device |-> IF opened \/ opening THEN device
                           ELSE output_device,
         controls |-> controls, objs |-> objects, calls |-> done,
         clock |-> now + SleptIn(done)]

\* the sleep that the interrupt cuts short: it has been entered
Entered(connects, made) ==
    IF made < Len(connects) /\ connects[made + 1].op = "sleep"
    THEN {<< >>, << connects[made + 1] >>} ELSE {<< >>}

\* the messages of iter_pending() handled so far: `handled` of them in
\* full, and of the next one the first `rounds` mappings
DrainCut(start, messages, handled, rounds) ==
    LET full == HandleMessages(1, start, SubSeq(messages, 1, handled))
    IN  IF rounds = 0 THEN full
        ELSE Rejoined(HandleMessage(LeftAfter(full, rounds),
                                    messages[handled + 1]), full)

\* the first n rounds of the for loop over the feedback extensions
RECURSIVE InvokeMonitorsUpTo(_, _, _, _)
InvokeMonitorsUpTo(n, i, st, raisers) ==
    IF i > n THEN st
    ELSE Only({ InvokeMonitorsUpTo(n, i + 1, next, raisers) :
                   next \in {MonitorStep(i, st, raisers)} })

\* `except KeyboardInterrupt`: cleanup() and sys.exit(), with the state
\* as the interrupted iteration leaves it
ExitAt(init, device, st, clock, entered) ==
    [initialized |-> init,
     output_device |-> device,
     controls |-> st.controls,
     objects |-> st.objs,
     io |-> st.calls \o entered \o cleanup(device),
     now |-> clock]

\* the exit of an iteration left before iter_pending() has returned
ConnectExit(cut, entered) ==
    ExitAt(cut.initialized, cut.output_device, cut, cut.clock, entered)

\* the exits of an iteration of `while True` that a KeyboardInterrupt ends
\* before iter_pending() has returned
InterruptedConnecting(connected, connects, device) ==
    {ConnectExit(ConnectCut(connected, connects, device, 0, FALSE, FALSE),
                 << >>)}
    \cup UNION {
           {ConnectExit(ConnectCut(connected, connects, device, made, TRUE,
                                   FALSE), entered) :
               entered \in Entered(connects, made)} :
           made \in 0..Len(connects)}
    \cup (IF connected THEN {}
          ELSE {ConnectExit(ConnectCut(connected, connects, device,
                                       Len(connects) - 1, TRUE, TRUE),
                            << >>)})

\* the condition of update_control / update_note on mapping cc
Matching(cc, message) ==
    IF message.type = "control_change"
    THEN ControlMatches(cc, message.channel + 1, message.number)
    ELSE /\ message.type \in {"note_on", "note_off"}
         /\ NoteMatches(cc, message.channel + 1, message.number)

\* the statements inside one round of update_control / update_note that
\* an interrupt can fall between: after cc.data has got its default
\* ("data"), after Switch.update has set post_flag ("flag"), after it has
\* stored button_state ("state"; the attribute itself is not stored yet)
Stages == {"data", "flag", "state"}

\* Switch.update(attribute, value) left at a stage
SwitchFieldsPartly(o, value, stage) ==
    [o EXCEPT
       !.metadata =
          IF RisingEdge(_get_value_from_dict(o.attributes, "button_state"),
                        value)
          THEN _set_value_in_dict(@, "post_flag", TRUE) ELSE @,
       !.attributes =
          IF stage = "state"
          THEN _set_value_in_dict(@, "button_state",
                                  StoredLevel("Switch", value))
          ELSE @]

\* round i of update_control / update_note for the message, left at a stage
RoundCut(st, i, message, stage) ==
    LET cc == st.controls[i]
        data == IF cc.data = None THEN "value" ELSE cc.data
        value == IF message.type = "note_off" THEN 0 ELSE message.value
    IN  IF ~Matching(cc, message) THEN st
        ELSE [st EXCEPT
                !.controls[i].data = data,
                !.objs[cc.target] =
                   IF stage = "data" THEN @
                   ELSE SwitchFieldsPartly(@, value, stage),
                !.calls =
                   IF stage = "data" THEN @
                   ELSE Append(@, [op |-> "update", obj |-> cc.target,
                                   attribute |-> data, value |-> value])]

\* the statements inside invoke() of a target that an interrupt can fall
\* between: invoke() entered and no request made yet ("entered"); the
\* request answered and post_flag not cleared yet ("answered",
\* homeassistant.py line 266 -> 267); post_flag cleared and last_exec_time
\* not set yet ("cleared", controller.py line 80 -> 81); last_exec_time set
\* and invoke() not left yet ("stamped")
\*
\* round i of the for loop over the mappings, left inside invoke() at a
\* stage; the KeyboardInterrupt leaves invoke() as an exception
TargetCut(st, i, outcomes, stage) ==
    LET target == st.controls[i].target
        o == st.objs[target]
        post == post_data([entity_id |-> o.entity_id], "switch", "toggle",
                          outcomes[target])
        sends == ~InvokeGated(o, st.clock) /\ Truthy(o.metadata, "post_flag")
        done == TargetInvoke(o, target, st.clock, outcomes[target])
    IN  IF InList(st.objs, st.ignore_list, target) THEN st
        ELSE IF stage = "entered"
        THEN [st EXCEPT
                !.calls = Append(@, InvokeCall(target, "target", TRUE))]
        ELSE IF InvokeGated(o, st.clock) \/ done.raised THEN st
        ELSE [st EXCEPT
                !.objs[target].metadata =
                   IF stage = "stamped" THEN done.obj.metadata
                   ELSE IF stage = "cleared" /\ sends
                   THEN _set_value_in_dict(@, "post_flag", FALSE)
                   ELSE @,
                !.calls = @ \o << InvokeCall(target, "target", TRUE) >>
                            \o (IF sends THEN << post >> ELSE << >>)]

\* round i of the for loop over the feedback extensions, left inside
\* invoke(): before execute() has returned ("entered") or after
\* last_exec_time has been set ("stamped")
MonitorCut(st, i, stage) ==
    LET feedback_ext == feedback_extensions[i]
        o == st.objs[feedback_ext]
    IN  IF InList(st.objs, st.ignore_list, feedback_ext) THEN st
        ELSE [st EXCEPT
                !.objs[feedback_ext].metadata =
                   IF stage = "stamped" /\ ~InvokeGated(o, st.clock)
                   THEN _set_value_in_dict(@, "last_exec_time", st.clock)
                   ELSE @,
                !.calls = Append(@, InvokeCall(feedback_ext, "monitor", TRUE))]

\* the exits when the interrupt arrives before or inside round `rounds` + 1
\* of the next message, `whole` being what has been handled in full
DrainExits(device, start, messages, handled, rounds, whole) ==
    {ExitAt(TRUE, device, cut, start.clock, << >>) :
        cut \in {whole} \cup
                (IF handled < Len(messages)
                 THEN {RoundCut(whole, rounds + 1, messages[handled + 1],
                                stage) : stage \in Stages}
                 ELSE {})}

\* ... while the messages of iter_pending() are handled: between two
\* rounds, or inside a round
InterruptedDraining(device, start, messages) ==
    UNION {
      UNION {
        DrainExits(device, start, messages, handled, rounds,
                   DrainCut(start, messages, handled, rounds)) :
        rounds \in (IF handled < Len(messages)
                    THEN 0..Len(start.controls) - 1 ELSE {0})} :
      handled \in 0..Len(messages)}

\* the exits when the interrupt arrives before or inside round `rounds` + 1,
\* `whole` being the rounds made in full
TargetExits(device, rounds, whole, outcomes) ==
    {ExitAt(TRUE, device, cut, cut.clock, << >>) :
        cut \in {whole} \cup
                (IF rounds < Len(whole.controls) /\ ~whole.raised
                 THEN {TargetCut(whole, rounds + 1, outcomes, stage) :
                          stage \in {"entered", "answered", "cleared", "stamped"}}
                 ELSE {})}

\* ... in the for loop over the mappings: between two rounds, inside the
\* request of a target (outcome 'raised': requests.post raises the
\* KeyboardInterrupt, which execute() and invoke() pass on), or inside
\* invoke() before or after the request
InterruptedInTargets(device, atTargets, outcomes) ==
    UNION {
      TargetExits(device, rounds,
                  Rejoined(InvokeTargets(1, LeftAfter(atTargets, rounds),
                                         outcomes), atTargets),
                  outcomes) :
      rounds \in 0..Len(atTargets.controls)}

\* the exits when the interrupt arrives after n rounds made in full
\* (`whole`): before the next round, inside it, or in the sleep that ends
\* the iteration; before the first round is where the for loop over the
\* mappings ends
MonitorExits(device, n, whole) ==
    {ExitAt(TRUE, device, whole, whole.clock, entered) :
        entered \in (IF n = Len(feedback_extensions)
                     THEN {<< Sleep(LoopSleep) >>} ELSE {})
                    \cup (IF n > 0 THEN {<< >>} ELSE {})}
    \cup (IF n < Len(feedback_extensions)
          THEN {ExitAt(TRUE, device, cut, cut.clock, << >>) :
                   cut \in {MonitorCut(whole, n + 1, stage) :
                               stage \in {"entered", "stamped"}}}
          ELSE {})

\* ... in the for loop over the feedback extensions, or in the sleep that
\* ends the iteration.  `except Exception` of line 252 does not catch a
\* KeyboardInterrupt: raised inside invoke() of an extension it ends the
\* loop there.
InterruptedInMonitors(device, afterTargets) ==
    UNION {
      UNION {
        MonitorExits(device, n, whole) :
        whole \in {InvokeMonitorsUpTo(n, 1, [afterTargets EXCEPT
                                                !.ignore_list = << >>],
                                      raisers) :
                      raisers \in SUBSET {feedback_extensions[i] :
                                             i \in 1..n}}} :
      n \in 0..Len(feedback_extensions)}

\* the state in which the for loop over the mappings is entered
AtTargets(drained, clock) ==
    [controls |-> drained.controls, objs |-> drained.objs,
     calls |-> drained.calls, ignore_list |-> << >>,
     clock |-> clock, raised |-> FALSE]

\* ... after the for loop over the mappings, which no invoke() has left
\* by an exception
InterruptedAfterTargets(device, afterTargets) ==
    IF afterTargets.raised THEN {}
    ELSE InterruptedInMonitors(device, afterTargets)

\* the answers the requests of the targets can get: at most one target
\* whose request fails or raises
OutcomesOf(mappings) ==
    {[t \in Targets |-> IF t = failing THEN failure ELSE "ok"] :
        failing \in {None} \cup {mappings[i].target : i \in 1..Len(mappings)},
        failure \in {"failed", "raised"}}

\* ... in or after the for loop over the mappings
InterruptedInvoking(device, atTargets) ==
    UNION {InterruptedInTargets(device, atTargets, outcomes) :
              outcomes \in OutcomesOf(atTargets.controls)}
    \cup UNION {InterruptedAfterTargets(device, afterTargets) :
                   afterTargets \in {InvokeTargets(1, atTargets, outcomes) :
                                        outcomes \in OutcomesOf(
                                                        atTargets.controls)}}

\* ... after iter_pending() has returned the messages (lines 219-256)
InterruptedHandling(device, start, messages) ==
    InterruptedDraining(device, start, messages)
    \cup UNION {InterruptedInvoking(device, atTargets) :
                   atTargets \in {AtTargets(HandleMessages(1, start,
                                                           messages),
                                            start.clock)}}

\* the state in which iter_pending() has returned the messages
Drainable(connects, messages) ==
    [controls |-> controls, objs |-> objects,
     calls |-> Append(connects, [op |-> "iter_pending", raised |-> FALSE,
                                 messages |-> messages]),
     clock |-> now + SleptIn(connects)]

\* the exits of one iteration of `while True` that a KeyboardInterrupt
\* ends somewhere inside the try
InterruptedIterationOn(ports, failures, device) ==
    LET connected == initialized /\ ports = "valid"
        connects == WithRetrySleeps(Reconnect(connected, failures))
        opened == IF connected THEN output_device ELSE device
    IN  InterruptedConnecting(connected, connects, device)
        \cup UNION {
               UNION {InterruptedHandling(opened, start,
                                          PendingNote(message)) :
                         start \in {Drainable(connects,
                                              PendingNote(message))}} :
               message \in Messages \ {"raised"}}

----------------------------------------------------------------------------
(* The controller: mappings and feedback extensions are registered, then   *)
(* loop() runs                                                             *)

InitLoop ==
    InitCalls /\ InitMonitorVars({None}) /\ InitSwitchVars({"Switch"})
        /\ InitLightVars /\ InitLoopVars

otherVars == <<last_ha_state, last_check_time, pending_change,
               pending_start_time, current_led_color, swVars, liVars,
               gateVars, histVars>>

RegisterMapping ==
    /\ loop_pc = "setup" /\ Len(controls) < MaxMappings
    /\ \E target \in Targets :
          register_mapping(1, NoteNumber, target, None, "note")
    /\ last_call' = "register_mapping"
    /\ returned' = None
    /\ io' = << >>
    /\ UNCHANGED <<now, output_device, initialized, loop_pc, tick_count,
                   otherVars>>

RegisterFeedback ==
    /\ loop_pc = "setup" /\ Len(feedback_extensions) < MaxFeedback
    /\ \E feedback_extension \in Monitors :
          register_feedback(feedback_extension)
    /\ last_call' = "register_feedback"
    /\ returned' = None
    /\ io' = << >>
    /\ UNCHANGED <<now, output_device, initialized, loop_pc, tick_count,
                   otherVars>>

LoopStart ==
    /\ loop_pc = "setup"
    /\ loop_pc' = "running"
    /\ last_call' = "loop"
    /\ returned' = None
    /\ io' = << >>
    /\ UNCHANGED <<now, output_device, controls, feedback_extensions, objects,
                   initialized, tick_count, otherVars>>

LoopTick ==
    /\ loop_pc = "running" /\ tick_count < MaxTicks
    /\ tick_count' = tick_count + 1
    /\ last_call' = "loop.tick"
    /\ UNCHANGED otherVars
    /\ \E ports \in {"valid", "invalid"},
          message \in Messages,
          failing \in {None} \cup {controls[i].target : i \in 1..Len(controls)},
          failure \in {"failed", "raised"},
          raisers \in SUBSET {feedback_extensions[i] :
                                 i \in 1..Len(feedback_extensions)} :
        \E initFailures \in
              (IF initialized /\ ports = "valid" THEN {0}
               ELSE 0..MaxInitFailures),
           device \in
              (IF initialized /\ ports = "valid" THEN {output_device}
               ELSE {"open", None}) :
          LoopIteration(ports, initFailures, device, message,
                        [t \in Targets |->
                            IF t = failing THEN failure ELSE "ok"],
                        raisers)

\* check_connection() itself raises: validate_ports() is called only when
\* initialized is set (`self.initialized and ...`), and an exception of
\* mido.get_input_names() in it ends the iteration in the handler
LoopCheckRaises ==
    /\ loop_pc = "running" /\ tick_count < MaxTicks
    /\ initialized
    /\ tick_count' = tick_count + 1
    /\ io' = << Sleep(ErrorSleep) >>
    /\ now' = now + ErrorSleep
    /\ returned' = "Exception"
    /\ loop_pc' = LoopAfter("Exception")
    /\ last_call' = "loop.tick"
    /\ UNCHANGED <<output_device, controls, feedback_extensions, objects,
                   initialized, otherVars>>

\* where a KeyboardInterrupt can reach loop(): inside the try of the while
\* loop; inside the handler `except Exception` (its print and its
\* sleep(1)), which no try encloses; or outside the try, on entering
\* loop() (lines 205-207) and at the back edge of `while True` (line 209)
InterruptPoints == {"try", "handler", "outside"}

\* the iteration that a KeyboardInterrupt ends inside the try, in the
\* conditions an iteration can find: what the iteration has done so far
\* stays, then cleanup() and sys.exit()
InterruptedIteration ==
    \E ports \in {"valid", "invalid"} :
    \E initFailures \in
          (IF initialized /\ ports = "valid" THEN {0}
           ELSE 0..MaxInitFailures),
       device \in
          (IF initialized /\ ports = "valid" THEN {output_device}
           ELSE {"open", None}) :
    \E exit \in InterruptedIterationOn(ports, initFailures, device) :
        /\ initialized' = exit.initialized
        /\ output_device' = exit.output_device
        /\ controls' = exit.controls
        /\ objects' = exit.objects
        /\ io' = exit.io
        /\ now' = exit.now
        /\ returned' = "SystemExit"

\* the iteration that ends in the handler `except Exception`
\* (check_connection(), iter_pending() or the invoke() of a target has
\* raised) and that a KeyboardInterrupt ends there: before sleep(1) is
\* called, inside sleep(1), whose time has then not passed, or as sleep(1)
\* ends.  What the iteration has done stays; no try encloses the handler,
\* so the exception leaves loop() and cleanup() is not called.
InterruptedInHandler ==
    LET Entry(init, device, st) ==
            [initialized |-> init, output_device |-> device,
             controls |-> st.controls, objects |-> st.objs,
             io |-> st.calls, now |-> st.clock]
        Unread(connects) ==
            [controls |-> controls, objs |-> objects,
             calls |-> Append(connects, [op |-> "iter_pending",
                                         raised |-> TRUE,
                                         messages |-> << >>]),
             clock |-> now + SleptIn(connects)]
        Unchecked ==
            [controls |-> controls, objs |-> objects, calls |-> << >>,
             clock |-> now]
        Raised(connects, message) ==
            {st \in {InvokeTargets(1, atTargets, outcomes) :
                        atTargets \in
                           {AtTargets(HandleMessages(1, start,
                                                     PendingNote(message)),
                                      start.clock) :
                               start \in {Drainable(connects,
                                                    PendingNote(message))}},
                        outcomes \in OutcomesOf(controls)} : st.raised}
        Entries(ports, failures, device) ==
            LET connected == initialized /\ ports = "valid"
                connects == WithRetrySleeps(Reconnect(connected, failures))
                opened == IF connected THEN output_device ELSE device
            IN  {Entry(TRUE, opened, st) :
                    st \in {Unread(connects)}
                           \cup UNION {Raised(connects, message) :
                                          message \in Messages \ {"raised"}}}
        Checking ==
            IF initialized THEN {Entry(initialized, output_device, Unchecked)}
            ELSE {}
    IN  \E ports \in {"valid", "invalid"} :
        \E initFailures \in
              (IF initialized /\ ports = "valid" THEN {0}
               ELSE 0..MaxInitFailures),
           device \in
              (IF initialized /\ ports = "valid" THEN {output_device}
               ELSE {"open", None}) :
        \E entry \in Checking \cup Entries(ports, initFailures, device),
           entered \in {<< >>, << Sleep(ErrorSleep) >>} :
        \E slept \in (IF entered = << >> THEN {0} ELSE {0, ErrorSleep}) :
            /\ initialized' = entry.initialized
            /\ output_device' = entry.output_device
            /\ controls' = entry.controls
            /\ objects' = entry.objects
            /\ io' = entry.io \o entered
            /\ now' = entry.now + slept
            /\ returned' = "KeyboardInterrupt"

\* KeyboardInterrupt.  Inside the try, at any statement of the iteration:
\* cleanup() and sys.exit() from where the iteration is.  Inside the
\* handler that ends an iteration, or outside the try (before the first
\* iteration or between two): the exception leaves loop() as it is, and
\* cleanup() is not called.
LoopInterrupt ==
    /\ loop_pc = "running"
    /\ \E point \in InterruptPoints :
          CASE point = "try" -> tick_count < MaxTicks /\ InterruptedIteration
            [] point = "handler" ->
                  tick_count < MaxTicks /\ InterruptedInHandler
            [] point = "outside" ->
                  /\ io' = << >>
                  /\ returned' = "KeyboardInterrupt"
                  /\ UNCHANGED <<now, output_device, controls, objects,
                                 initialized>>
    /\ loop_pc' = LoopAfter("KeyboardInterrupt")
    /\ last_call' = "loop.interrupt"
    /\ UNCHANGED <<feedback_extensions, tick_count, otherVars>>

NextLoop ==
    \/ RegisterMapping \/ RegisterFeedback \/ LoopStart
    \/ LoopTick \/ LoopCheckRaises \/ LoopInterrupt

SpecLoop == InitLoop /\ [][NextLoop]_vars

----------------------------------------------------------------------------
(* The loop of a controller with at most one mapping and one feedback      *)
(* extension, which keeps going round                                      *)

MaxLoneMappings == 1    \* mappings registered at most
MaxLoneFeedback == 1    \* feedback extensions registered at most

LoneMapping == Len(controls) < MaxLoneMappings /\ RegisterMapping

LoneFeedback == Len(feedback_extensions) < MaxLoneFeedback /\ RegisterFeedback

NextLone ==
    \/ LoneMapping \/ LoneFeedback \/ LoopStart
    \/ LoopTick \/ LoopCheckRaises \/ LoopInterrupt

SpecLone == InitLoop /\ [][NextLone]_vars

\* `while True`: as long as loop() has not been left, the next iteration
\* starts when the last one has ended
LiveSpecLone == SpecLone /\ WF_vars(LoopTick)

----------------------------------------------------------------------------
(* The loop reading several pending messages: mappings of both kinds, on   *)
(* two channels and two numbers, and one iteration                         *)

MaxPending == 2         \* messages pending in one iteration at most
MaxDrainTicks == 1      \* iterations of the loop at most

DrainChannels == {1, 2}
DrainNumbers == {NoteNumber, NoteNumber + 1}
DrainTargets == {"t1", "t3"}

\* the messages the device can hold: control changes, notes (a note_off
\* with a release velocity) and a message of another type
PendingMessages ==
    { Message(type, channel - 1, number,
              CASE type = "note_on" -> 127
                [] type = "pitchwheel" -> 0
                [] OTHER -> MidRaw) :
        type \in {"control_change", "note_on", "note_off", "pitchwheel"},
        channel \in DrainChannels, number \in DrainNumbers }

PendingLists ==
    UNION { [1..n -> PendingMessages] : n \in 0..MaxPending }

DrainRegister ==
    /\ loop_pc = "setup" /\ Len(controls) < MaxMappings
    /\ \E channel \in DrainChannels, number \in DrainNumbers,
          target \in DrainTargets, message_type \in {"note", "cc"} :
          register_mapping(channel, number, target,
                           IF message_type = "note" THEN None
                           ELSE "brightness_channel",
                           message_type)
    /\ last_call' = "register_mapping"
    /\ returned' = None
    /\ io' = << >>
    /\ UNCHANGED <<now, output_device, initialized, loop_pc, tick_count,
                   otherVars>>

DrainTick ==
    /\ loop_pc = "running" /\ tick_count < MaxDrainTicks
    /\ \E messages \in PendingLists :
          LoopIterationOn("valid", 0, None, messages, FALSE,
                          [t \in Targets |-> "ok"], {})
    /\ tick_count' = tick_count + 1
    /\ last_call' = "loop.tick"
    /\ UNCHANGED otherVars

NextDrain == DrainRegister \/ LoopStart \/ DrainTick

SpecDrain == InitLoop /\ [][NextDrain]_vars

----------------------------------------------------------------------------
(* A switch that is updated and invoked, as the loop does in each iteration *)

GateHorizon == 12       \* the clock runs this long
MaxExecutions == 3      \* entries of execute() at most

GateSteps == {SwitchUpdateFrequency, SwitchUpdateFrequency + 1}

InitGate ==
    InitCalls /\ InitMonitorVars({None}) /\ InitSwitchVars(SwitchClasses)
        /\ InitLightVars /\ InitLoopVars

GateTick ==
    /\ \E d \in GateSteps :
          now + d <= StartTime + GateHorizon /\ now' = now + d
    /\ last_call' = "tick"
    /\ returned' = None
    /\ io' = << >>
    /\ UNCHANGED <<monVars, swVars, liVars, loopVars>>

SwInvoke ==
    /\ Len(executions["switch"]) < MaxExecutions
    /\ \E outcome \in PostOutcomes :
          invoke("switch", SwitchExecute(outcome))
    /\ last_call' = "switch.invoke"
    /\ UNCHANGED <<now, monVars, liVars, schedVars, histVars>>

NextGate == GateTick \/ SwUpdate \/ SwInvoke

SpecGate == InitGate /\ [][NextGate]_vars

----------------------------------------------------------------------------
(* A monitor that is invoked, as the loop does in each iteration, and       *)
(* pressed through the update() of its instant switch                      *)

PollHorizon == 110      \* the clock runs this long

PollSteps == {PendingCheckInterval, PendingCheckInterval + 1}

InitPolling ==
    InitCalls /\ InitMonitorVars({"open"})
        /\ InitSwitchVars({"EnhancedSwitch"}) /\ InitLightVars
        /\ InitLoopVars

PollTick ==
    /\ \E d \in PollSteps :
          now + d <= StartTime + PollHorizon /\ now' = now + d
    /\ last_call' = "tick"
    /\ returned' = None
    /\ io' = << >>
    /\ UNCHANGED <<monVars, swVars, liVars, loopVars>>

MonInvoke ==
    /\ \E fetched \in FetchResults, sendOk \in BOOLEAN :
          invoke("monitor", execute(fetched, sendOk))
    /\ last_call' = "monitor.invoke"
    /\ UNCHANGED <<now, swVars, liVars, schedVars, histVars>>

NextPolling == PollTick \/ SwUpdate \/ MonInvoke

SpecPolling == InitPolling /\ [][NextPolling]_vars

\* the scheduler loop keeps calling the monitor and the clock keeps running
LiveSpecMonitor == SpecMonitor /\ WF_vars(Tick) /\ WF_vars(Poll)

----------------------------------------------------------------------------
(* Reading the calls of a step *)

Sends(calls) == SelectSeq(calls, LAMBDA e : e.op = "send")
Fetches(calls) == SelectSeq(calls, LAMBDA e : e.op = "get_state")

\* this step is an execute() that got past its check-interval test
PollRan == last_call' = "execute" /\ io' # << >>
\* what its fetch returned
PollFetched == io'[1].result

\* the state after an execute() that got past its check-interval test
RanExecute == last_call = "execute" /\ io # << >>

----------------------------------------------------------------------------
(* Claims about the feedback monitor *)

C1_TimeoutStep ==
    (pending_change /\ PollRan /\ now - pending_start_time > PendingTimeout)
        => ~pending_change'

C1_ConfirmStep ==
    (pending_change /\ PollRan /\ PollFetched \notin {None, last_ha_state})
        => ~pending_change'

\* C1: once button_pressed() has set pending_change, with execute() being
\* run again and again pending_change eventually becomes False; an
\* execute() that fetches a state different from last_ha_state clears it,
\* and so does any execute() that gets past its check-interval test more
\* than 3.0 s after pending_start_time.
C1_PendingResolves ==
    /\ pending_change ~> ~pending_change
    /\ [][C1_TimeoutStep /\ C1_ConfirmStep]_vars

\* a timeout has just cleared a pending change, the fetched state unchanged
C1_Witness ==
    /\ RanExecute
    /\ ~pending_change
    /\ now - pending_start_time > PendingTimeout
    /\ io[1].result = last_ha_state
    /\ Len(io) = 2 /\ io[2].reason = "timeout"

\* C2: with an output device, every button_pressed() sends the amber note
\* (velocity 63) before it makes any get_state call, whatever the send or
\* the fetch do.
C2_AmberBeforeFetch ==
    (last_call = "button_pressed" /\ output_device = "open") =>
        /\ Len(Sends(io)) = 1
        /\ io[1].op = "send" /\ io[1].color = "amber" /\ io[1].velocity = 63
        /\ \A i \in 1..Len(io) : io[i].op = "get_state" => i > 1

\* a press whose logging fetch failed, after the amber note went out
C2_Witness ==
    /\ last_call = "button_pressed" /\ output_device = "open"
    /\ Len(io) = 2 /\ io[1].color = "amber"
    /\ io[2].op = "get_state" /\ io[2].result = None

\* C3 (as claimed): when execute() times out a pending change, the colour
\* it sends is that of the last fetched remote state (green for 'on', red
\* for 'off') and pending_change is cleared.
C3_TimeoutShowsLastState ==
    (/\ RanExecute /\ Len(io) = 2 /\ io[2].reason = "timeout"
     /\ last_ha_state \in {"on", "off"})
        => /\ io[2].color = StateColor(last_ha_state)
           /\ ~pending_change

C4_PressStep ==
    (last_call' = "button_pressed" /\ output_device = "open"
        /\ Sends(io')[1].ok)
        => /\ Len(Sends(io')) = 1 /\ Sends(io')[1].color = "amber"
           /\ current_led_color' = "amber" /\ pending_change'

\* between the press and the confirmation nothing is sent
C4_WaitStep ==
    (/\ pending_change /\ last_ha_state = "off" /\ PollRan
     /\ PollFetched \in {"off", None}
     /\ now - pending_start_time < PendingTimeout)
        => /\ Sends(io') = << >>
           /\ UNCHANGED <<pending_change, last_ha_state, current_led_color>>

C4_ConfirmStep ==
    (/\ pending_change /\ last_ha_state = "off"
     /\ current_led_color = "amber" /\ output_device = "open"
     /\ PollRan /\ PollFetched = "on"
     /\ now - pending_start_time < PendingTimeout)
        => /\ Len(Sends(io')) = 1 /\ Sends(io')[1].color = "green"
           /\ Sends(io')[1].ok => current_led_color' = "green"
           /\ ~pending_change'
           /\ last_ha_state' = "on"

C4_NoLateRevert ==
    (~pending_change /\ last_call' = "execute")
        => \A i \in 1..Len(io') :
              io'[i].op = "send" => io'[i].reason # "timeout"

\* C4: with remote state 'off' observed, button_pressed() sends amber; the
\* polls that still see 'off' (or fail) within 3.0 s send nothing; the poll
\* that fetches 'on' within 3.0 s sends green, clears pending_change and
\* records last_ha_state = 'on'; and no execute() sends a timeout revert
\* while pending_change is False.  The signals are [amber, green].
C4_PressThenConfirm ==
    [][C4_PressStep /\ C4_WaitStep /\ C4_ConfirmStep /\ C4_NoLateRevert]_vars

\* the confirming poll has just run, inside the 3.0 s window
C4_Witness ==
    /\ RanExecute /\ io[1].result = "on"
    /\ Len(io) = 2 /\ io[2].reason = "confirmed" /\ io[2].color = "green"
    /\ io[2].ok /\ current_led_color = "green"
    /\ now - pending_start_time < PendingTimeout
    /\ now > pending_start_time
    /\ last_ha_state = "on" /\ ~pending_change

C5_ExternalStep ==
    (~pending_change /\ PollRan /\ PollFetched \notin {None, last_ha_state})
        => /\ last_ha_state' = PollFetched
           /\ ~pending_change'
           /\ output_device = "open" =>
                /\ Len(Sends(io')) = 1
                /\ Sends(io')[1].color =
                      (IF PollFetched = "on" THEN "green" ELSE "red")
                /\ Sends(io')[1].reason = "external"
                /\ Sends(io')[1].ok =>
                      current_led_color' = Sends(io')[1].color

C5_NeverSetsPending ==
    last_call' = "execute" => (pending_change' => pending_change)

\* C5: a fetch that returns a state different from last_ha_state while
\* pending_change is False makes execute() send the colour of the new state
\* (green for 'on', red otherwise) and record it as last_ha_state, with
\* pending_change still False; and no execute() sets pending_change.
C5_ExternalChange == [][C5_ExternalStep /\ C5_NeverSetsPending]_vars

\* an external change from 'off' to 'on' has just been shown
C5_Witness ==
    /\ RanExecute /\ io[1].result = "on"
    /\ Len(io) = 2 /\ io[2].reason = "external" /\ io[2].color = "green"
    /\ last_ha_state = "on" /\ ~pending_change
    /\ current_led_color = "green"

\* C6 (as claimed): an execute() whose fetch fails leaves last_ha_state,
\* pending_change and the LED colour as they were, in every monitor state.
C6_FailedFetchChangesNothing ==
    [][(PollRan /\ PollFetched = None)
         => /\ UNCHANGED <<last_ha_state, pending_change, current_led_color>>
            /\ Sends(io') = << >>]_vars

\* C7 (as claimed): the first successful fetch sends the colour of the
\* fetched state, records it, and leaves pending_change as it was.
C7_FirstFetchKeepsPending ==
    [][(last_ha_state = None /\ PollRan /\ PollFetched # None)
         => /\ last_ha_state' = PollFetched
            /\ pending_change' = pending_change]_vars

----------------------------------------------------------------------------
(* Claims about the switch targets *)

Posts(calls) == SelectSeq(calls, LAMBDA e : e.op = "post_data")

\* the level the switch has stored
SwLevel == _get_value_from_dict(sw_attributes, LevelKey(sw_class))
\* this step is an update(); the value it was given
SwUpdateStep == last_call' = "switch.update"
SwValue == sw_attributes'["value"]
BinaryLevel(value) == IF value > 0 THEN 1 ELSE 0

C8_ArmedByRisingEdgeOnly ==
    SwUpdateStep =>
        /\ (SwLevel = 0 /\ SwValue > 0) => sw_post_flag'
        /\ ~(SwLevel = 0 /\ SwValue > 0) => sw_post_flag' = sw_post_flag

\* C8 (as claimed): update() arms post_flag on a rising edge only, and the
\* stored level always becomes the binary level (0 or 1) of the latest
\* value, for Switch, ToggleSwitch and LightToggleSwitch alike.
C8_StoredLevelIsBinary ==
    [][C8_ArmedByRisingEdgeOnly
       /\ (SwUpdateStep => SwLevel' = BinaryLevel(SwValue))]_vars

\* C8 (amended): update() arms post_flag exactly on a rising edge (stored
\* level 0, new value nonzero), never on a repeated nonzero value or on a
\* 0; Switch, EnhancedSwitch and ToggleSwitch then store the binary level
\* of the latest value, and LightToggleSwitch stores the latest value
\* itself, which is 0 exactly when the binary level is 0.
C8_RisingEdge ==
    [][C8_ArmedByRisingEdgeOnly
       /\ (SwUpdateStep =>
             /\ sw_class # "LightToggleSwitch"
                   => SwLevel' = BinaryLevel(SwValue)
             /\ sw_class = "LightToggleSwitch" => SwLevel' = SwValue
             /\ BinaryLevel(SwLevel') = BinaryLevel(SwValue))]_vars

\* a nonzero value repeated after the toggle went out: nothing is armed
C8_Witness ==
    /\ last_call = "switch.update"
    /\ sw_class = "LightToggleSwitch"
    /\ SwLevel = 127 /\ sw_attributes["value"] = 127
    /\ ~sw_post_flag

\* C9 (as claimed): an execute() that finds post_flag set issues exactly
\* one toggle request carrying only the entity id and leaves post_flag
\* cleared, whatever the outcome of the request.
C9_ToggleClearsFlag ==
    [][(sw_post_flag /\ last_call' = "switch.execute")
         => /\ Len(Posts(io')) = 1
            /\ io'[1].data = [entity_id |-> SwitchEntity(sw_class)]
            /\ io'[1].service = "toggle"
            /\ ~sw_post_flag']_vars

----------------------------------------------------------------------------
(* Claims about CyncLight *)

LiExecuteStep == last_call' = "light.execute"

\* C10: when post_flag is set, the translated brightness differs from
\* last_brightness and the translated RGB equals last_color, execute()
\* issues exactly one request, whose payload has the entity id and the
\* brightness and no rgb_color key.
C10_BrightnessOnly ==
    [][(/\ LiExecuteStep /\ li_post_flag
        /\ current_brightness # last_brightness
        /\ current_color = last_color)
         => /\ Len(Posts(io')) = 1
            /\ DOMAIN Posts(io')[1].data = {"entity_id", "brightness"}
            /\ Posts(io')[1].data.entity_id = LightEntity
            /\ Posts(io')[1].data.brightness = current_brightness]_vars

\* a brightness-only request has just gone out, the colour left alone
C10_Witness ==
    /\ last_call = "light.execute"
    /\ Len(io) = 1
    /\ io[1].data = [entity_id |-> LightEntity, brightness |-> 0]
    /\ io[1].outcome = "ok"
    /\ last_brightness = 0
    /\ last_color = <<255, 255, 255>>
    /\ ~li_post_flag

\* the requests of the execute() that has just run / that this step runs
LiRan == last_call = "light.execute"
HasColour(call) == "rgb_color" \in DOMAIN call.data
HasBrightness(call) == "brightness" \in DOMAIN call.data

C11_ColourOnlyStep ==
    (/\ LiExecuteStep /\ li_post_flag
     /\ current_color # last_color
     /\ current_brightness = last_brightness)
        => /\ Len(Posts(io')) = 1
           /\ Posts(io')[1].data =
                 [entity_id |-> LightEntity, rgb_color |-> current_color]

C11_ColourFirstStep ==
    LiExecuteStep =>
        \A i, j \in 1..Len(io') :
            (/\ io'[i].op = "post_data" /\ HasColour(io'[i])
             /\ io'[j].op = "post_data" /\ HasBrightness(io'[j]))
                => i < j

\* a brightness request goes out only when the colour the light holds has
\* been sent: a colour that differs from the one sent last is requested
\* first, in the same execute(), and the request has succeeded; as long
\* as it fails, no execute() of a later tick requests the brightness
C11_ColourSentStep ==
    (LiExecuteStep /\ \E j \in 1..Len(io') :
                         io'[j].op = "post_data" /\ HasBrightness(io'[j]))
        => /\ last_color' = current_color
           /\ current_color # last_color
                => /\ HasColour(Posts(io')[1])
                   /\ Posts(io')[1].outcome = "ok"

\* C11: when post_flag is set and only the colour differs from what was
\* last sent, execute() issues exactly one request, whose payload is the
\* entity id and rgb_color with no brightness key; in every execute()
\* that issues a colour request and a brightness request the colour
\* request comes first; and a changed colour is requested, with success,
\* before any brightness request of the same or a later execute().
C11_ColourOnly ==
    [][C11_ColourOnlyStep /\ C11_ColourFirstStep /\ C11_ColourSentStep]_vars

\* a colour-only request has just gone out, the brightness left alone
C11_Witness ==
    /\ LiRan
    /\ Len(Posts(io)) = 1
    /\ io[1].data = [entity_id |-> LightEntity, rgb_color |-> <<0, 255, 255>>]
    /\ io[1].outcome = "ok"
    /\ last_color = <<0, 255, 255>>
    /\ current_brightness = last_brightness
    /\ ~li_post_flag

\* the colour request of the execute() went through, the brightness one not
PartialFailure(calls) ==
    /\ Len(Posts(calls)) = 2
    /\ Posts(calls)[1].outcome = "ok"
    /\ Posts(calls)[2].outcome # "ok"

C12_PartialStep ==
    (LiExecuteStep /\ PartialFailure(io'))
        => /\ li_post_flag'
           /\ last_color' = current_color
           /\ last_brightness' = last_brightness
           /\ last_brightness' # current_brightness

C12_RetryStep ==
    (LiRan /\ PartialFailure(io) /\ LiExecuteStep)
        => /\ Len(Posts(io')) = 1
           /\ DOMAIN Posts(io')[1].data = {"entity_id", "brightness"}
           /\ Posts(io')[1].data.brightness = current_brightness

C12_ClearStep ==
    (LiExecuteStep /\ li_post_flag /\ ~li_post_flag')
        => /\ \A i \in 1..Len(Posts(io')) : Posts(io')[i].outcome = "ok"
           /\ last_color' = current_color
           /\ last_brightness' = current_brightness

\* C12: an execute() whose colour request succeeds and whose brightness
\* request fails leaves post_flag set, last_color updated and
\* last_brightness as it was; the execute() that follows it directly
\* issues one brightness-only request and no colour request; and post_flag
\* goes from set to clear only in an execute() all of whose requests
\* succeeded, after which nothing is left to send.
C12_PartialFailure ==
    [][C12_PartialStep /\ C12_RetryStep /\ C12_ClearStep]_vars

\* colour went through, brightness did not: the brightness is still owed
C12_Witness ==
    /\ LiRan /\ PartialFailure(io)
    /\ io[3].outcome = "failed"
    /\ li_post_flag
    /\ last_color = current_color /\ last_color # <<255, 255, 255>>
    /\ last_brightness = 255 /\ current_brightness # 255

\* the colour request of the execute() did not go through
ColourFailed(calls) ==
    /\ Len(Posts(calls)) >= 1
    /\ HasColour(Posts(calls)[1])
    /\ Posts(calls)[1].outcome # "ok"

C13_FailStep ==
    (/\ LiExecuteStep /\ li_post_flag /\ current_color # last_color
     /\ Posts(io')[1].outcome # "ok")
        => /\ Len(Posts(io')) = 1
           /\ HasColour(Posts(io')[1]) /\ ~HasBrightness(Posts(io')[1])
           /\ UNCHANGED <<last_color, last_brightness>>
           /\ li_post_flag'

C13_AgainStep ==
    (LiRan /\ ColourFailed(io) /\ LiExecuteStep)
        => /\ Len(Posts(io')) >= 1
           /\ Posts(io')[1].data =
                 [entity_id |-> LightEntity, rgb_color |-> current_color]
           /\ (/\ Posts(io')[1].outcome = "ok"
               /\ current_brightness # last_brightness)
                 => /\ Len(Posts(io')) = 2
                    /\ Posts(io')[2].data =
                          [entity_id |-> LightEntity,
                           brightness |-> current_brightness]

\* C13: when the colour request that was needed fails, that execute()
\* issues no brightness request, leaves last_color and last_brightness
\* unchanged and post_flag set; the execute() that follows it directly
\* issues the colour request again, and after it the brightness request
\* if the colour went through and the brightness differs.
C13_ColourFailure == [][C13_FailStep /\ C13_AgainStep]_vars

\* the colour request failed while a new brightness was waiting too
C13_Witness ==
    /\ LiRan /\ ColourFailed(io) /\ Len(Posts(io)) = 1
    /\ io[1].outcome = "failed"
    /\ current_brightness # last_brightness
    /\ current_color # last_color
    /\ li_post_flag

\* C14: every request a CyncLight issues has either the keys entity_id and
\* rgb_color or the keys entity_id and brightness, never a colour and a
\* brightness together, whatever the updates, the colour mode and the
\* outcomes of earlier requests.
C14_NeverColourAndBrightness ==
    \A i \in 1..Len(io) :
        io[i].op = "post_data" =>
            \/ DOMAIN io[i].data = {"entity_id", "rgb_color"}
            \/ DOMAIN io[i].data = {"entity_id", "brightness"}

\* both requests of one execute(), after the colour mode was toggled to hs
C14_Witness ==
    /\ LiRan
    /\ _get_value_from_dict(li_attributes, "colour_mode") = "hs"
    /\ Len(Posts(io)) = 2
    /\ HasColour(Posts(io)[1]) /\ HasBrightness(Posts(io)[2])

----------------------------------------------------------------------------
(* Claims about the targets in general and about Light *)

TgExecuteStep == last_call' \in {"switch.execute", "light.execute"}
TgUpdateStep == last_call' \in {"switch.update", "light.update"}
\* the dirty flag of the target
DirtyFlag == IF sw_class # None THEN sw_post_flag ELSE li_post_flag

C15_OnlyIfDirty ==
    /\ (TgExecuteStep /\ Len(Posts(io')) >= 1) => DirtyFlag
    /\ (/\ TgExecuteStep /\ Len(Posts(io')) >= 1
        /\ \A i \in 1..Len(Posts(io')) : Posts(io')[i].outcome = "ok")
          => ~DirtyFlag'
    /\ (~DirtyFlag /\ DirtyFlag') => TgUpdateStep

\* C15 (as claimed): one execute() of a Light, CyncLight, Switch or
\* ToggleSwitch issues at most one request, and only if post_flag has been
\* set since the last successful send.
C15_AtMostOneRequest ==
    [][C15_OnlyIfDirty /\ (TgExecuteStep => Len(Posts(io')) <= 1)]_vars

\* C15 (amended): one execute() of a Light, Switch or ToggleSwitch issues
\* at most one request; one execute() of a CyncLight issues at most two, a
\* colour-only request followed by a brightness-only request; an
\* execute() issues a request only if post_flag is set; an execute() all
\* of whose requests succeeded leaves post_flag clear; and a clear
\* post_flag is set only by update().
C15_RequestsPerExecute ==
    [][/\ C15_OnlyIfDirty
       /\ TgExecuteStep =>
            /\ li_class # "CyncLight" => Len(Posts(io')) <= 1
            /\ li_class = "CyncLight" =>
                 /\ Len(Posts(io')) <= 2
                 /\ Len(Posts(io')) = 2 =>
                       /\ DOMAIN Posts(io')[1].data = {"entity_id", "rgb_color"}
                       /\ DOMAIN Posts(io')[2].data =
                             {"entity_id", "brightness"}]_vars

\* a CyncLight has just issued its two requests in one execute()
C15_Witness ==
    /\ LiRan /\ li_class = "CyncLight"
    /\ Len(Posts(io)) = 2
    /\ Posts(io)[1].outcome = "ok" /\ Posts(io)[2].outcome = "ok"
    /\ ~li_post_flag

\* the request matches the attribute values held when execute() runs
C16_LatestValues(data) ==
    /\ data.entity_id = LightEntity
    /\ data.brightness =
          RoundTranslate(_get_value_from_dict(li_attributes,
                                              "brightness_channel"),
                         0, 127, 0, 255)
    /\ li_attributes["colour_mode"] = "hs" =>
          data.hs_color[1] =
             RoundTranslate(_get_value_from_dict(li_attributes, "hue_channel"),
                            0, 127, 0, 360)
    /\ li_attributes["colour_mode"] = "rgb" =>
          data.rgb_color[1] =
             RoundTranslate(_get_value_from_dict(li_attributes, "red_channel"),
                            0, 127, 0, 255)

C16_ExecuteStep ==
    (LiExecuteStep /\ li_class = "Light" /\ li_post_flag)
        => /\ Len(Posts(io')) = 1
           /\ C16_LatestValues(Posts(io')[1].data)
           /\ Posts(io')[1].outcome = "ok" => ~li_post_flag'
           /\ Posts(io')[1].outcome # "ok" => li_post_flag'

C16_RetryStep ==
    (/\ LiRan /\ li_class = "Light"
     /\ Len(Posts(io)) = 1 /\ Posts(io)[1].outcome # "ok"
     /\ LiExecuteStep)
        => /\ Len(Posts(io')) = 1
           /\ C16_LatestValues(Posts(io')[1].data)

C16_UpdateStep ==
    (last_call' = "light.update" /\ li_class = "Light")
        => \E k \in DOMAIN li_attributes' :
              li_attributes' =
                 _set_value_in_dict(li_attributes, k, li_attributes'[k])

\* C16: an execute() of a Light with post_flag set issues one request
\* built from the attribute values held at that moment; a successful
\* request clears post_flag and a failed one leaves it set, so that the
\* next execute() issues a request again, built from the values held then;
\* an update() overwrites the value of its attribute and keeps no history.
C16_RetryLatestValues ==
    [][C16_ExecuteStep /\ C16_RetryStep /\ C16_UpdateStep]_vars

\* a request of a Light has just failed: the flag is still set
C16_Witness ==
    /\ LiRan /\ li_class = "Light"
    /\ Len(Posts(io)) = 1 /\ io[1].outcome = "failed"
    /\ io[1].data.brightness = 129
    /\ li_post_flag

----------------------------------------------------------------------------
(* Claims about the scheduler loop *)

\* this step is an iteration of the loop
TickStep == last_call' = "loop.tick"
\* ... in which the pending messages were read and applied without error
DrainedOk(calls) ==
    \E i \in 1..Len(calls) : calls[i].op = "iter_pending" /\ ~calls[i].raised

\* the objects invoke() was called on, in order
RECURSIVE Invoked(_, _)
Invoked(calls, kind) ==
    IF calls = << >> THEN << >>
    ELSE (IF calls[1].op = "invoke" /\ calls[1].kind = kind
          THEN << calls[1].obj >> ELSE << >>)
         \o Invoked(Tail(calls), kind)

InvokeRaised(calls) ==
    \E i \in 1..Len(calls) : calls[i].op = "invoke" /\ calls[i].raised

\* the distinct instances of a list, in the order of their first entry
RECURSIVE Instances(_)
Instances(list) ==
    IF list = << >> THEN << >>
    ELSE LET front == Instances(SubSeq(list, 1, Len(list) - 1))
             last == list[Len(list)]
         IN  IF \E k \in 1..Len(front) : front[k] = last THEN front
             ELSE Append(front, last)

MappedTargets == [i \in 1..Len(controls) |-> controls[i].target]

\* C17 (as claimed): in every iteration of the loop that gets to the
\* targets, invoke() is called exactly once on each distinct target
\* instance that a mapping references, in the order of first registration.
C17_EachTargetOnce ==
    [][(TickStep /\ DrainedOk(io'))
         => Invoked(io', "target") = Instances(MappedTargets)]_vars

\* C18 (as claimed): in every iteration of the loop that gets to the
\* feedback extensions, invoke() is called exactly once on each registered
\* extension, in registration order, also on one that is registered twice
\* and on one whose invoke() raises.
C18_EachMonitorOnce ==
    [][(TickStep /\ returned' = None)
         => Invoked(io', "monitor") = Instances(feedback_extensions)]_vars

\* C19 (as claimed): in an iteration in which an invoke() raises, every
\* registered target and every registered feedback extension is still
\* invoked.
C19_ErrorDoesNotAbortTick ==
    [][(TickStep /\ InvokeRaised(io'))
         => /\ \A i \in 1..Len(controls) :
                  \E k \in 1..Len(io') : /\ io'[k].op = "invoke"
                                         /\ io'[k].obj = controls[i].target
            /\ \A i \in 1..Len(feedback_extensions) :
                  \E k \in 1..Len(io') :
                     /\ io'[k].op = "invoke"
                     /\ io'[k].obj = feedback_extensions[i]]_vars

C20_ErrorStep == TickStep => loop_pc' = "running"

C20_ExitStep ==
    (loop_pc = "running" /\ loop_pc' # "running")
        => last_call' = "loop.interrupt"

\* loop() is running and has made k iterations, the last of them with or
\* without an error
MadeTicks(k) == loop_pc = "running" /\ tick_count = k

\* whatever happened in the iterations made so far, a later iteration runs,
\* unless a KeyboardInterrupt ends the loop first
C20_LaterTick ==
    \A k \in 0..MaxTicks - 1 :
        MadeTicks(k) ~> (tick_count > k \/ last_call = "loop.interrupt")

\* C20: an iteration of the loop in which connection checking, event
\* handling, a target or a feedback extension raises an error leaves the
\* loop running, and a later iteration follows it; the loop stops running
\* only on a KeyboardInterrupt.
C20_LoopSurvivesErrors ==
    [][C20_ErrorStep /\ C20_ExitStep]_vars /\ C20_LaterTick

\* a complete iteration has run after an iteration that ended in an error
C20_Witness ==
    /\ last_call = "loop.tick" /\ returned = None
    /\ loop_pc = "running" /\ tick_count = 2
    /\ now = StartTime + ErrorSleep + LoopSleep

\* C21 (as claimed): when loop() has been left on a KeyboardInterrupt, an
\* open output port has been closed, wherever in the loop the interrupt
\* arrived.
C21_ClosedOnInterrupt ==
    (loop_pc = "exited" /\ output_device = "open")
        => \E i \in 1..Len(io) : io[i].op = "close"

----------------------------------------------------------------------------
(* Claims about update() and invoke() *)

\* C22 (as claimed): update(attribute, value) of a target of any class
\* makes no call of the client (neither get_state nor post_data) and sends
\* nothing to the output port.
C22_UpdateDoesNoIO == [][TgUpdateStep => io' = << >>]_vars

SwInvokeStep == last_call' = "switch.invoke"
SwExecuted == executions'["switch"] # executions["switch"]

C23_GateStep ==
    SwInvokeStep =>
        (SwExecuted <=>
            now - last_exec_time["switch"] > update_frequency("switch"))

C23_StampStep ==
    /\ (SwInvokeStep /\ SwExecuted /\ returned' \in {"True", "False"})
          => last_exec_time'["switch"] = now
    /\ (SwInvokeStep /\ ~SwExecuted) => UNCHANGED last_exec_time

C23_Spacing ==
    \A c \in Components : \A i \in 2..Len(executions[c]) :
        executions[c][i] - executions[c][i - 1] > update_frequency(c)

\* C23 (as claimed): invoke() calls execute() exactly when now -
\* last_exec_time > update_frequency; it sets last_exec_time to now when
\* execute() has returned, whatever it returned; and two successive
\* executions of a component always start more than update_frequency
\* apart.
C23_InvokeGate == [][C23_GateStep /\ C23_StampStep]_vars /\ []C23_Spacing

MonInvokeStep == last_call' = "monitor.invoke"

\* C25 (as claimed): invoked by the loop, a monitor with pending_change
\* fetches the state once 50 ms have passed since its last fetch, and not
\* before; a monitor without pending_change fetches at the interval of
\* update_frequency.
C25_PendingCadence ==
    [][MonInvokeStep =>
         /\ (pending_change /\ now - last_check_time >= PendingCheckInterval)
               => Fetches(io') # << >>
         /\ (pending_change /\ now - last_check_time < PendingCheckInterval)
               => Fetches(io') = << >>
         /\ (~pending_change
                 /\ now - last_check_time > MonitorUpdateFrequency)
               => Fetches(io') # << >>
         /\ (~pending_change
                 /\ now - last_check_time < MonitorUpdateFrequency)
               => Fetches(io') = << >>]_vars

----------------------------------------------------------------------------
(* Claims about the messages read in an iteration *)

Updates(calls) == SelectSeq(calls, LAMBDA c : c.op = "update")

\* the messages iter_pending() yielded in the iteration
Yielded(calls) ==
    (CHOOSE c \in {calls[i] : i \in 1..Len(calls)} :
        c.op = "iter_pending").messages

\* the kind of mapping a message is for
KindOf(message) ==
    CASE message.type = "control_change" -> "cc"
      [] message.type \in {"note_on", "note_off"} -> "note"
      [] OTHER -> "no mapping"

\* the mappings, in registration order, that the message matches
MatchedBy(message) ==
    SelectSeq(controls,
              LAMBDA cc :
                 /\ cc.message_type = KindOf(message)
                 /\ cc.channel = message.channel + 1
                 /\ (IF cc.message_type = "note" THEN cc.note
                     ELSE cc.control) = message.number)

\* the update() calls the message stands for
Deliveries(message) ==
    [i \in 1..Len(MatchedBy(message)) |->
        [op |-> "update", obj |-> MatchedBy(message)[i].target,
         attribute |-> IF MatchedBy(message)[i].data = None THEN "value"
                       ELSE MatchedBy(message)[i].data,
         value |-> IF message.type = "note_off" THEN 0 ELSE message.value]]

RECURSIVE AllDeliveries(_)
AllDeliveries(messages) ==
    IF messages = << >> THEN << >>
    ELSE Deliveries(Head(messages)) \o AllDeliveries(Tail(messages))

\* C24: in an iteration of the loop every pending message is applied
\* before any target is invoked, and each message reaches, through
\* update(), every mapping with its channel, its number and its kind, in
\* registration order, a note_off with the value 0.
C24_DrainBeforeInvoke ==
    [][(TickStep /\ DrainedOk(io'))
         => /\ Updates(io') = AllDeliveries(Yielded(io'))
            /\ \A i, j \in 1..Len(io') :
                  (io'[i].op = "update" /\ io'[j].op = "invoke") => i < j]_vars

\* a note_off with a release velocity and then a note_on were pending,
\* both for two mappings: four updates, and then the requests
C24_Witness ==
    /\ last_call = "loop.tick" /\ DrainedOk(io)
    /\ Len(Yielded(io)) = 2
    /\ Yielded(io)[1].type = "note_off" /\ Yielded(io)[1].value > 0
    /\ Yielded(io)[2].type = "note_on"
    /\ Len(Updates(io)) = 4
    /\ Updates(io)[1].value = 0 /\ Updates(io)[3].value = 127
    /\ Len(Posts(io)) = 2

----------------------------------------------------------------------------
(* Claims about the output port of the monitor *)

\* C26: without an output device (output_device is None) a monitor sends
\* no message and current_led_color keeps its initial value, whatever
\* button_pressed() and execute() calls are made.
C26_NoSinkNoSignal ==
    output_device = None
        => (Sends(io) = << >> /\ current_led_color = "unknown")

\* without an output device: a press, and its confirmation by execute()
C26_Witness ==
    /\ output_device = None
    /\ last_call = "execute" /\ Fetches(io) # << >>
    /\ pending_start_time >= StartTime
    /\ ~pending_change /\ last_ha_state = "on"

\* a send of the call raised
FailedSend(calls) ==
    \E i \in 1..Len(calls) : calls[i].op = "send" /\ ~calls[i].ok

C27_PressStep ==
    (last_call' = "button_pressed" /\ FailedSend(io'))
        => /\ returned' = None
           /\ pending_change' /\ pending_start_time' = now
           /\ Fetches(io') # << >>

C27_ExecuteStep ==
    (PollRan /\ FailedSend(io'))
        => /\ returned' = "False"
           /\ last_check_time' = now
           /\ last_ha_state' =
                 IF PollFetched # None /\ PollFetched # last_ha_state
                 THEN PollFetched ELSE last_ha_state
           /\ pending_change' =
                 IF PollFetched # None /\ PollFetched # last_ha_state
                 THEN FALSE
                 ELSE (pending_change
                         /\ ~(now - pending_start_time > PendingTimeout))

\* C27: when the send to the output port raises, the exception stays
\* inside _set_led_color: button_pressed() still sets pending_change and
\* pending_start_time and makes its fetch, and execute() still records the
\* fetched state in last_ha_state and clears pending_change as it does
\* when the send succeeds.
C27_SinkFailureSwallowed == [][C27_PressStep /\ C27_ExecuteStep]_vars

\* every send has raised: a press was made and has been confirmed
C27_Witness ==
    /\ output_device = "open" /\ current_led_color = "unknown"
    /\ last_call = "execute" /\ FailedSend(io)
    /\ pending_start_time >= StartTime
    /\ ~pending_change /\ last_ha_state = "on"

----------------------------------------------------------------------------
(* Claims about the colour mode and the payload of Light *)

ToggleModeStep == last_call' = "light.change_colour_mode"

\* C28: change_colour_mode() takes the colour mode from hs to rgb and from
\* rgb to hs, so that two calls restore it; it makes no call of the
\* client and leaves post_flag and every buffered channel value as they
\* are.
C28_ColourModeCycle ==
    [][ToggleModeStep =>
         /\ li_attributes["colour_mode"] = "hs"
               => li_attributes'["colour_mode"] = "rgb"
         /\ li_attributes["colour_mode"] = "rgb"
               => li_attributes'["colour_mode"] = "hs"
         /\ DOMAIN li_attributes' = DOMAIN li_attributes
         /\ \A k \in DOMAIN li_attributes \ {"colour_mode"} :
               li_attributes'[k] = li_attributes[k]
         /\ io' = << >>
         /\ UNCHANGED <<li_post_flag, last_brightness, last_color>>]_vars

\* a Light, constructed in mode hs, is in mode hs again after calls of
\* change_colour_mode(), with a value buffered and post_flag set
C28_Witness ==
    /\ last_call = "light.change_colour_mode" /\ li_class = "Light"
    /\ li_attributes["colour_mode"] = "hs"
    /\ "brightness_channel" \in DOMAIN li_attributes
    /\ li_attributes["brightness_channel"] = MidRaw
    /\ li_post_flag

\* C30: every request of Light.execute() carries entity_id, brightness
\* and transition, the transition being the update_frequency of the
\* light, and one colour field after the colour mode: hs_color in mode hs,
\* rgb_color in mode rgb, never both and never none.
C30_LightPayload ==
    [][(LiExecuteStep /\ li_class = "Light")
         => \A i \in 1..Len(Posts(io')) :
              LET data == Posts(io')[i].data
                  mode == li_attributes["colour_mode"]
              IN  /\ {"entity_id", "brightness", "transition"}
                        \subseteq DOMAIN data
                  /\ data.entity_id = LightEntity
                  /\ data.transition = LightUpdateFrequency
                  /\ DOMAIN data \ {"entity_id", "brightness", "transition"}
                        = {IF mode = "hs" THEN "hs_color" ELSE "rgb_color"}
                  /\ mode \in {"hs", "rgb"}]_vars

\* a Light in mode rgb has sent a request with rgb_color
C30_Witness ==
    /\ LiRan /\ li_class = "Light"
    /\ Len(Posts(io)) = 1
    /\ li_attributes["colour_mode"] = "rgb"
    /\ "rgb_color" \in DOMAIN io[1].data
    /\ io[1].data.brightness = 129

\* the value execute() places in a payload for a channel, and the upper end
\* of the physical range of that channel
PayloadValue(key) ==
    CASE key = "brightness_channel" -> current_brightness
      [] key = "red_channel" -> current_color[1]
      [] key = "green_channel" -> current_color[2]
      [] key = "blue_channel" -> current_color[3]
      [] key = "hue_channel" -> current_hs[1]
      [] key = "saturation_channel" -> current_hs[2]
Upper(key) ==
    CASE key = "hue_channel" -> 360
      [] key = "saturation_channel" -> 100
      [] OTHER -> 255

\* an update that does not lower the raw value of a channel does not lower
\* the value the payload gets for it
C29_MonotonicStep ==
    last_call' = "light.update"
      => \A key \in AllChannels :
           _get_value_from_dict(li_attributes, key)
               <= _get_value_from_dict(li_attributes', key)
             => PayloadValue(key) <= PayloadValue(key)'

\* raw 0 gives 0, raw 127 gives the upper end, every value is in the range
C29_Ends ==
    \A key \in AllChannels :
       LET raw == _get_value_from_dict(li_attributes, key)
       IN  /\ raw = 0 => PayloadValue(key) = 0
           /\ raw = RawMax => PayloadValue(key) = Upper(key)
           /\ PayloadValue(key) \in 0..Upper(key)

\* the fields of the requests that have been sent are in their ranges
C29_PayloadInRange ==
    \A i \in 1..Len(Posts(io)) :
       LET data == Posts(io)[i].data
       IN  /\ "brightness" \in DOMAIN data => data.brightness \in 0..255
           /\ "rgb_color" \in DOMAIN data
                => \A j \in 1..3 : data.rgb_color[j] \in 0..255
           /\ "hs_color" \in DOMAIN data
                => /\ data.hs_color[1] \in 0..360
                   /\ data.hs_color[2] \in 0..100

\* C29: for the raw values 0..127 the rescaling of the light targets never
\* decreases when the raw value grows, gives 0 for 0 and the upper end of
\* the range for 127, and every value placed in a payload is in its
\* physical range: brightness and red, green, blue in 0..255, hue in
\* 0..360, saturation in 0..100.
C29_ScaleInRange ==
    [][C29_MonotonicStep]_vars /\ [](C29_Ends /\ C29_PayloadInRange)

\* a Light has sent the saturation of raw value 127 as 100
C29_Witness ==
    /\ LiRan /\ li_class = "Light"
    /\ Len(Posts(io)) = 1
    /\ "hs_color" \in DOMAIN io[1].data
    /\ _get_value_from_dict(li_attributes, "saturation_channel") = RawMax
    /\ io[1].data.hs_color = <<0, 100>>

----------------------------------------------------------------------------
(* Claims about what a CyncLight has sent last *)

\* the buffered raw values translate to what was sent last
NothingNew ==
    current_color = last_color /\ current_brightness = last_brightness

\* C36: when post_flag is set but the translated colour equals last_color
\* and the translated brightness equals last_brightness, as after the same
\* raw value was received again, execute() of a CyncLight issues no
\* request and clears post_flag.
C36_ChangeSuppression ==
    [][(LiExecuteStep /\ li_post_flag /\ NothingNew)
         => /\ io' = << >>
            /\ ~li_post_flag'
            /\ returned' = "False"
            /\ UNCHANGED <<last_color, last_brightness>>]_vars

\* colour and brightness have been sent, the same raw value has come
\* again and execute() has found nothing to send
C36_Witness ==
    /\ LiRan /\ io = << >> /\ ~li_post_flag
    /\ _get_value_from_dict(li_attributes, "brightness_channel") = MidRaw
    /\ last_brightness = current_brightness
    /\ last_color = current_color
    /\ last_color # <<255, 255, 255>>

\* the requests among the calls that were answered with status 200
Succeeded(calls) == SelectSeq(Posts(calls), LAMBDA e : e.outcome = "ok")
LastOf(seq) == seq[Len(seq)]

\* last_color and last_brightness follow the successful requests of a step
\* and nothing else
C37_TrackStep ==
    LET colours == SelectSeq(Succeeded(io'), HasColour)
        levels == SelectSeq(Succeeded(io'), HasBrightness)
    IN  /\ last_color' = IF colours # << >>
                          THEN LastOf(colours).data.rgb_color
                          ELSE last_color
        /\ last_brightness' = IF levels # << >>
                               THEN LastOf(levels).data.brightness
                               ELSE last_brightness

\* C37 as stated: last_color and last_brightness of a CyncLight are those of
\* the most recent successful colour and brightness request, or the initial
\* [255, 255, 255] and 255, and in every state with post_flag False the
\* buffered raw values translate to last_color and last_brightness.
C37_LastSentTracking ==
    [][C37_TrackStep]_vars /\ [](~li_post_flag => NothingNew)

\* C37, amended: last_color and last_brightness of a CyncLight are those
\* of the most recent successful colour and brightness request, or the
\* initial [255, 255, 255] and 255; in every state with post_flag False in
\* which a raw value has been buffered, the buffered raw values translate
\* to last_color and last_brightness.  Before the first update() the
\* buffer is empty and reads as 0, and last_color and last_brightness
\* are the initial values.
C37_TrackedOnceBuffered ==
    /\ [][C37_TrackStep]_vars
    /\ []((~li_post_flag /\ Touched # {}) => NothingNew)
    /\ []((Touched = {} /\ li_class = "CyncLight")
           => /\ last_color = <<255, 255, 255>> /\ last_brightness = 255
              /\ current_color = <<0, 0, 0>> /\ current_brightness = 0)

\* colour and brightness have both gone out and are what is kept as sent
C37_Witness ==
    /\ LiRan /\ ~li_post_flag /\ Touched # {}
    /\ Len(Succeeded(io)) = 2
    /\ last_color = Succeeded(io)[1].data.rgb_color
    /\ last_brightness = Succeeded(io)[2].data.brightness
    /\ last_color = <<0, 129, 0>> /\ last_brightness = 129

----------------------------------------------------------------------------
(* Claims about the monitor whose LED sends always succeed *)

\* C32: with an output port whose sends always succeed, after any sequence
\* of button_pressed() and execute() calls pending_change is True if and
\* only if current_led_color is 'amber'.
C32_PendingIffAmber == pending_change <=> current_led_color = "amber"

\* a pending change has timed out and the LED has left amber with it
C32_Witness ==
    /\ RanExecute /\ ~pending_change
    /\ Len(Sends(io)) = 1 /\ Sends(io)[1].reason = "timeout"
    /\ current_led_color = "green"

\* C38: with an output port whose sends always succeed, whenever the
\* monitor is not pending and has observed a remote state, the LED agrees
\* with that state: green if last_ha_state is 'on', red otherwise, after
\* any sequence of presses, fetch results, failed fetches and timeouts.
C38_LedAgreesWithState ==
    (~pending_change /\ last_ha_state # None)
        => current_led_color = StateColor(last_ha_state)

\* a press sets pending_start_time to the clock, pending or not, and
\* nothing else writes it: pending_start_time is the time of the most
\* recent press
C39_RestartStep ==
    IF last_call' = "button_pressed"
    THEN pending_start_time' = now /\ pending_change'
    ELSE pending_start_time' = pending_start_time

\* an execute() reverts a pending change that the remote state has not
\* confirmed only more than 3 s after that time
C39_RevertStep ==
    (PollRan /\ pending_change /\ ~pending_change'
       /\ PollFetched \in {None, last_ha_state})
        => now - pending_start_time > PendingTimeout

\* C39: a button_pressed() that arrives while the monitor is pending
\* restarts the timeout window: pending_start_time becomes the time of the
\* latest press, and the timeout revert fires only more than 3.0 s after
\* the most recent press, not after the first one.
C39_PressRestartsWindow == [][C39_RestartStep /\ C39_RevertStep]_vars

\* an execute() more than 3 s after the first moment a press could come,
\* but not more than 3 s after the latest press, has left the change
\* pending
C39_Witness ==
    /\ RanExecute /\ pending_change
    /\ pending_start_time > StartTime
    /\ now - StartTime > PendingTimeout
    /\ now - pending_start_time <= PendingTimeout

----------------------------------------------------------------------------
(* Claims about the instant switches and their monitor *)

\* this step called button_pressed(), which always fetches the state
PressedInStep == SwUpdateStep /\ Fetches(io') # << >>

\* C33: the monitor is put into Pending, by button_pressed() called from
\* its switch, only by a value that also arms the toggle request of that
\* switch, a rising edge; a nonzero value repeated without a 0 between
\* does not put the monitor into Pending.
C33_PendingOnlyOnRisingEdge ==
    [][PressedInStep
         => /\ RisingEdge(SwLevel, SwValue)
            /\ sw_post_flag']_vars

----------------------------------------------------------------------------
(* Claims about the targets an event reaches *)

\* the targets referenced by the mappings a message matches
ReferencedBy(message) ==
    { MatchedBy(message)[i].target : i \in 1..Len(MatchedBy(message)) }

\* the targets referenced by a matching mapping of a message of the list
Reached(messages) ==
    UNION { ReferencedBy(messages[k]) : k \in 1..Len(messages) }

\* C31: an event whose channel, number and kind match no mapping leaves
\* the attributes and the post_flag of every target as they are and
\* causes no request; an event changes only the targets that a mapping
\* it matches references, a control change never a target mapped for
\* notes only and a note never a target mapped for control changes only.
C31_OnlyMatchedTargets ==
    [][(TickStep /\ DrainedOk(io'))
         => \A id \in DOMAIN objects \ Reached(Yielded(io')) :
               /\ objects'[id].attributes = objects[id].attributes
               /\ Truthy(objects'[id].metadata, "post_flag")
                     = Truthy(objects[id].metadata, "post_flag")
               /\ "post_flag" \in DOMAIN objects'[id].metadata
                     <=> "post_flag" \in DOMAIN objects[id].metadata
               /\ \A k \in 1..Len(Updates(io')) : Updates(io')[k].obj # id
               /\ \A k \in 1..Len(Posts(io')) :
                     Posts(io')[k].data.entity_id # EntityOf(id)]_vars

\* a control change was pending for which t1 is mapped, while t3 is mapped
\* for the note of the same channel and number: t1 alone was updated and
\* has sent its request
C31_Witness ==
    /\ last_call = "loop.tick" /\ DrainedOk(io)
    /\ Len(Yielded(io)) = 1 /\ Yielded(io)[1].type = "control_change"
    /\ Len(controls) = 2
    /\ controls[1].target = "t1" /\ controls[1].message_type = "cc"
    /\ controls[2].target = "t3" /\ controls[2].message_type = "note"
    /\ controls[1].channel = controls[2].channel
    /\ controls[1].control = controls[2].note
    /\ Len(Updates(io)) = 1 /\ Updates(io)[1].obj = "t1"
    /\ objects["t3"].attributes = [k \in {"button_state"} |-> 0]
    /\ Len(Posts(io)) = 1 /\ Posts(io)[1].data.entity_id = EntityOf("t1")

----------------------------------------------------------------------------
(* One switch of any class inside the loop, with its monitor when it is an *)
(* instant switch.  loop_pc is the position in the iteration: "drain"      *)
(* while the pending messages are applied, "feedback" when the target has  *)
(* been invoked, "sleep" at the end of the iteration.                      *)

MaxDrained == 3         \* messages for the switch in one iteration at most
MaxPressTicks == 2      \* iterations of the loop at most
MaxEdges == 2           \* rising edges at most
MaxRequests == 3        \* toggle requests at most

\* the calls of a handler as they enter the trace: who made them, and the
\* colour of a send or the service of a request
Tag(calls, who) ==
    [i \in 1..Len(calls) |->
        [op |-> calls[i].op, who |-> who,
         what |-> CASE calls[i].op = "send" -> calls[i].color
                    [] calls[i].op = "post_data" -> calls[i].service
                    [] OTHER -> ""]]

\* an update() in the trace: a nonzero value is a press, 0 a release
UpdateEntry(value) ==
    [op |-> "update", who |-> "update",
     what |-> IF value > 0 THEN "press" ELSE "release"]

Drained == Len(SelectSeq(trace, LAMBDA e : e.op = "update"))

\* main.py: the monitors are registered as feedback extensions only if
\* there is an output port
InitPress ==
    /\ InitCalls /\ InitMonitorVars({"open", None})
    /\ InitSwitchVars(SwitchClasses) /\ InitLightVars
    /\ controls = << >> /\ objects = << >>
    /\ feedback_extensions =
          IF HasCallback(sw_class) /\ output_device = "open"
          THEN << "m1" >> ELSE << >>
    /\ initialized = TRUE
    /\ loop_pc = "drain"
    /\ tick_count = 0
    /\ InitGateVars /\ InitHistVars

\* a pending message for the switch: update_note calls update()
PrUpdate ==
    /\ loop_pc = "drain" /\ Drained < MaxDrained
    /\ rising_edges < MaxEdges
    /\ \E value \in RawValues, sendOk \in BOOLEAN, fetched \in FetchResults :
          /\ IF HasCallback(sw_class)
             THEN SwitchUpdate("value", value, sendOk, fetched)
             ELSE sendOk /\ fetched = None
                    /\ SwitchUpdate("value", value, sendOk, fetched)
          /\ trace' = Append(trace, UpdateEntry(value)) \o Tag(io', "update")
          /\ \E edge \in {IF RisingEdge(SwLevel, value) THEN 1 ELSE 0} :
                /\ rising_edges' = rising_edges + edge
                /\ fresh_edges' = fresh_edges + edge
    /\ last_call' = "switch.update"
    /\ UNCHANGED <<now, liVars, schedVars, gateVars, toggle_requests>>

\* "Execute control extensions": invoke() of the switch; an exception
\* ends the iteration in the handler
PrTargets ==
    /\ loop_pc = "drain" /\ toggle_requests < MaxRequests
    /\ \E outcome \in PostOutcomes : invoke("switch", SwitchExecute(outcome))
    /\ last_call' = "switch.invoke"
    /\ trace' = trace \o Tag(io', "switch.invoke")
    /\ toggle_requests' = toggle_requests + Len(Posts(io'))
    /\ fresh_edges' = IF time_check("switch") THEN fresh_edges ELSE 0
    /\ loop_pc' = IF returned' = "raised" THEN "sleep" ELSE "feedback"
    /\ UNCHANGED <<now, monVars, liVars, controls, feedback_extensions,
                   objects, initialized, tick_count, rising_edges>>

\* "Execute feedback extensions": invoke() of the monitor
PrFeedback ==
    /\ loop_pc = "feedback" /\ feedback_extensions # << >>
    /\ \E fetched \in FetchResults, sendOk \in BOOLEAN :
          invoke("monitor", execute(fetched, sendOk))
    /\ last_call' = "monitor.invoke"
    /\ trace' = trace \o Tag(io', "monitor.invoke")
    /\ loop_pc' = "sleep"
    /\ UNCHANGED <<now, swVars, liVars, controls, feedback_extensions,
                   objects, initialized, tick_count, rising_edges, fresh_edges,
                   toggle_requests>>

\* the sleep that ends the iteration: update_rate, or 1 s in the handler;
\* the iteration itself takes up to a millisecond
PrSleep ==
    /\ loop_pc = "sleep" \/ (loop_pc = "feedback" /\ feedback_extensions = << >>)
    /\ tick_count < MaxPressTicks
    /\ \E nap \in {IF last_call = "switch.invoke" /\ returned = "raised"
                    THEN ErrorSleep ELSE LoopSleep},
          took \in {0, 1} :
          /\ io' = << Sleep(nap) >>
          /\ now' = now + nap + took
    /\ returned' = None
    /\ last_call' = "loop.sleep"
    /\ trace' = << >>
    /\ tick_count' = tick_count + 1
    /\ loop_pc' = "drain"
    /\ UNCHANGED <<monVars, swVars, liVars, controls, feedback_extensions,
                   objects, initialized, gateVars, rising_edges, fresh_edges,
                   toggle_requests>>

NextPress == PrUpdate \/ PrTargets \/ PrFeedback \/ PrSleep

SpecPress == InitPress /\ [][NextPress]_vars

----------------------------------------------------------------------------
(* Claims about a press on its way through the iteration *)

Instant == sw_class \in {"EnhancedSwitch", "LightToggleSwitch"}

\* a nonzero value for an instant switch: within update() the monitor is
\* made pending and, with an output port, amber is sent before anything
\* else; no request goes out yet
C34_PressStep ==
    (SwUpdateStep /\ Instant /\ SwValue > 0)
        => /\ pending_change' /\ pending_start_time' = now
           /\ output_device = "open"
                 => (io'[1].op = "send" /\ io'[1].color = "amber")
           /\ Posts(io') = << >>

\* the invoke() of an instant switch that follows in the iteration sends
\* the toggle request that was armed
C34_ToggleStep ==
    (SwInvokeStep /\ Instant /\ sw_post_flag)
        => (Len(Posts(io')) = 1 /\ Posts(io')[1].service = "toggle")

\* the part of the iteration a call of the trace belongs to
PhaseOf(entry) ==
    CASE entry.who = "update" -> 1
      [] entry.who = "switch.invoke" -> 2
      [] entry.who = "monitor.invoke" -> 3

\* within an iteration: what update() does, then what the switch's
\* invoke() does, then what the monitor's invoke() does
C34_OrderInTick ==
    /\ \A i, j \in 1..Len(trace) :
          i < j => PhaseOf(trace[i]) <= PhaseOf(trace[j])
    /\ \A i \in 1..Len(trace) :
          /\ trace[i].what = "amber" => PhaseOf(trace[i]) = 1
          /\ trace[i].op = "post_data" => PhaseOf(trace[i]) = 2

\* C34: for a press handled by an instant switch the order of effects is
\* fixed: amber is sent and the monitor made pending while the event is
\* handled, then the invoke() of the switch issues the toggle request, and
\* only after that the invoke() of the monitor polls the remote state in
\* that iteration; the toggle request is never issued before the amber
\* signal.
C34_PressOrder ==
    [][C34_PressStep /\ C34_ToggleStep]_vars /\ []C34_OrderInTick

\* an iteration in which a press was handled: amber, the toggle request,
\* and then the poll of the monitor, which found the new state
C34_Witness ==
    /\ loop_pc = "sleep" /\ last_call = "monitor.invoke"
    /\ Len(trace) = 6
    /\ trace[1] = UpdateEntry(127)
    /\ trace[2] = [op |-> "send", who |-> "update", what |-> "amber"]
    /\ trace[3].op = "get_state" /\ trace[3].who = "update"
    /\ trace[4] = [op |-> "post_data", who |-> "switch.invoke",
                    what |-> "toggle"]
    /\ trace[5].op = "get_state" /\ trace[5].who = "monitor.invoke"
    /\ trace[6] = [op |-> "send", who |-> "monitor.invoke", what |-> "green"]
    /\ ~pending_change /\ current_led_color = "green"

\* an execute() that follows one or more rising edges issues one request
C35_OneRequestStep ==
    (SwInvokeStep /\ SwExecuted /\ fresh_edges >= 1)
        => Len(Posts(io')) = 1

\* C35: presses coalesce: however many rising edges the switch received
\* since its last execute(), the next execute() issues exactly one toggle
\* request; over any run the number of toggle requests never exceeds the
\* number of rising edges.
C35_PressesCoalesce ==
    [][C35_OneRequestStep]_vars /\ [](toggle_requests <= rising_edges)

====
